---- MODULE Spec2Model ----
(***************************************************************************)
(* Model of the configuration codec of ice_board (src/configuration.py,    *)
(* src/device_data.py): the tile / block-memory bit store, the bank        *)
(* geometry mapper, the text codec and the binary codec.                   *)
(*                                                                         *)
(* The module holds several specifications over one set of variables; each *)
(* specification drives one part of the program and leaves the variables   *)
(* of the other parts at their idle values.                                *)
(***************************************************************************)
EXTENDS Integers, Sequences, FiniteSets, TLC

VARIABLES
    org_slice,      \* reverse_slice: the slice handed in
    to_slice,       \* the list that is indexed (test_reverse_slice: list(range(l)))
    rev_slice,      \* reverse_slice(org_slice)
    rev2_slice,     \* reverse_slice(reverse_slice(org_slice))
    slice_pc,       \* "input" | "reversed" | "twice"
    \* the Configuration
    tiles,          \* _tiles: position -> matrix
    bram,           \* _bram: position -> matrix
    extra_bits,     \* _extra_bits: list of <<bank, x, y>>
    comment,        \* _comment: list of characters
    freq_range,     \* _freq_range: 0 (LOW), 1 (MEDIUM), 2 (HIGH)
    warmboot,       \* _warmboot
    nosleep,        \* _nosleep
    \* set_bram_values / get_bram_values
    bv_block,       \* ram_block
    bv_address,     \* address
    bv_mode,        \* mode
    bv_values,      \* values written
    bv_read,        \* values read back
    bv_err,         \* the exception raised, "none" without one
    bv_pc,          \* "input" | "written" | "read"
    \* the bank mappers, as driven by test_access_cram_matching / _bram_matching
    xram,           \* the four banks (cram or bram of the tests)
    dut2,           \* the tiles, bram and extra_bits of the second Configuration
    bank_err,       \* the exception raised, "none" without one
    bank_pc,        \* "blank" | "written" | "read"
    \* the binary and the text codec
    bin_file,       \* the bytes of the binary file
    bin_org,        \* the bytes of the binary file as they were serialized
    bin_opt,        \* the options handed to write_bin, None without
    asc_file,       \* the lines of the text file
    cfg2,           \* the Configuration the file is read into
    codec_err,      \* the exception raised, "none" without one
    codec_pc,       \* the position of the test that drives the codec
    calls,          \* the number of calls made on the Configuration
    \* DeviceSpec.get_tile_types as a generator
    gen_spec,       \* the DeviceSpec: max_x, max_y, bram_cols
    gen_out,        \* the (position, type) pairs yielded so far
    gen_pc,         \* "idle" | "running" | "done"
    \* FPGAManager
    fm_devices,     \* what Ftdi.find_all returns: a list of (serial number, interface count)
    fm_args,        \* min_nr, max_nr, serial_numbers of __init__
    fm_avail_dict,  \* _avail_dict: serial number -> available
    fm_boards,      \* the ManagedFPGABoard objects handed out and not closed, per process
    fm_err,         \* the exception raised, "none" without one
    fm_pc           \* "idle" | "new" | "managing"

sliceVars == <<org_slice, to_slice, rev_slice, rev2_slice, slice_pc>>

configVars == <<tiles, bram, extra_bits, comment, freq_range, warmboot, nosleep>>

bvVars == <<bv_block, bv_address, bv_mode, bv_values, bv_read, bv_err, bv_pc>>

bankVars == <<xram, dut2, bank_err, bank_pc>>

codecVars == <<bin_file, bin_org, bin_opt, asc_file, cfg2, codec_err, codec_pc, calls>>

genVars == <<gen_spec, gen_out, gen_pc>>

fmVars == <<fm_devices, fm_args, fm_avail_dict, fm_boards, fm_err, fm_pc>>

vars == <<sliceVars, configVars, bvVars, bankVars, codecVars, genVars, fmVars>>

(***************************************************************************)
(* Python values                                                           *)
(***************************************************************************)

\* Python's None and an int, as an optional value
None == << >>

Some(v) == <<v>>

IsNone(o) == o = << >>

Val(o) == o[1]

\* slice(start, stop, step); each field None or Some(int)
slice(start, stop, step) == [start |-> start, stop |-> stop, step |-> step]

\* reversed(seq)
Reversed(s) == [k \in 1..Len(s) |-> s[Len(s) + 1 - k]]

\* range(start, stop, step) as a sequence (step # 0)
Range(start, stop, step) ==
    LET n == IF step > 0
             THEN (IF start < stop THEN ((stop - start - 1) \div step) + 1 ELSE 0)
             ELSE (IF start > stop THEN ((start - stop - 1) \div (-step)) + 1 ELSE 0)
    IN  [k \in 1..n |-> start + (k - 1) * step]

\* slice.indices(length): the (start, stop, step) Python indexes a sequence of
\* `length` elements with; what list.__getitem__ / __setitem__ do with a slice
SliceAdjust(s, length) ==
    LET step  == IF IsNone(s.step) THEN 1 ELSE Val(s.step)
        lower == IF step < 0 THEN -1 ELSE 0
        upper == IF step < 0 THEN length - 1 ELSE length
        clamp(v) == IF v < 0
                    THEN (IF v + length < lower THEN lower ELSE v + length)
                    ELSE (IF v > upper THEN upper ELSE v)
        start == IF IsNone(s.start)
                 THEN (IF step < 0 THEN upper ELSE lower)
                 ELSE clamp(Val(s.start))
        stop  == IF IsNone(s.stop)
                 THEN (IF step < 0 THEN lower ELSE upper)
                 ELSE clamp(Val(s.stop))
    IN  [start |-> start, stop |-> stop, step |-> step]

\* range(start, stop, step) of adjusted slice indices
AdjustedRange(a) == Range(a.start, a.stop, a.step)

\* the 0-based indices seq[s] selects in a sequence of `length` elements, in order
SliceIndices(s, length) == AdjustedRange(SliceAdjust(s, length))

\* seq[s] for a slice s (0-based Python indices over a 1-based TLA+ sequence)
GetSlice(seq, s) ==
    LET
        \* the elements of a sequence at 0-based indices
        ItemsAt(seq1, idx) == [k \in 1..Len(idx) |-> seq1[idx[k] + 1]]
    IN
    ItemsAt(seq, SliceIndices(s, Len(seq)))

(***************************************************************************)
(* Configuration.reverse_slice                                             *)
(***************************************************************************)

\* Mutant: the special case for stop == 0 (an always empty slice) left out.
reverse_slice_no_special(org) ==
    LET org_step == IF IsNone(org.step) \/ org.step = Some(0) THEN 1 ELSE Val(org.step)
        step     == -org_step
    IN  IF step < 0
        THEN slice(IF IsNone(org.stop) THEN None ELSE Some(Val(org.stop) - 1),
                   IF org.start \in {None, Some(0)} THEN None ELSE Some(Val(org.start) - 1),
                   Some(step))
        ELSE slice(IF IsNone(org.stop) THEN None ELSE Some(Val(org.stop) + 1),
                   IF org.start \in {None, Some(-1)} THEN None ELSE Some(Val(org.start) + 1),
                   Some(step))

\* Mutant: the new stop of a negative-step slice is off by one.
reverse_slice_off_by_one(org) ==
    LET org_step == IF IsNone(org.step) \/ org.step = Some(0) THEN 1 ELSE Val(org.step)
        step     == -org_step
    IN  IF step < 0
        THEN IF org.stop = Some(0)
             THEN slice(org.start, Some(-1), Some(step))
             ELSE slice(IF IsNone(org.stop) THEN None ELSE Some(Val(org.stop) - 1),
                        IF org.start \in {None, Some(0)} THEN None ELSE Some(Val(org.start) - 1),
                        Some(step))
        ELSE IF org.stop = Some(-1)
             THEN slice(org.start, Some(0), Some(step))
             ELSE slice(IF IsNone(org.stop) THEN None ELSE Some(Val(org.stop) + 1),
                        IF org.start \in {None, Some(-1)} THEN None ELSE Some(Val(org.start)),
                        Some(step))

reverse_slice(org) ==
    LET org_step == IF IsNone(org.step) \/ org.step = Some(0) THEN 1 ELSE Val(org.step)
        step     == -org_step
    IN  IF step < 0
        THEN \* org step was positive
             IF org.stop = Some(0)
             THEN slice(org.start, Some(-1), Some(step))
             ELSE slice(IF IsNone(org.stop) THEN None ELSE Some(Val(org.stop) - 1),
                        IF org.start \in {None, Some(0)} THEN None ELSE Some(Val(org.start) - 1),
                        Some(step))
        ELSE \* org step was negative
             IF org.stop = Some(-1)
             THEN slice(org.start, Some(0), Some(step))
             ELSE slice(IF IsNone(org.stop) THEN None ELSE Some(Val(org.stop) + 1),
                        IF org.start \in {None, Some(-1)} THEN None ELSE Some(Val(org.start) + 1),
                        Some(step))

(***************************************************************************)
(* Stores of bits.  _tiles and _bram are dicts of tuples of Python lists   *)
(* of bool, the banks are tuples of such tuples.  A store keeps the keys   *)
(* of the dict (the bank numbers of a tuple of banks), the cells that hold *)
(* True as <<key, row, column>>, and the rows whose length differs from    *)
(* the length they were created with as <<key, row, length>>: a tuple      *)
(* fixes the number of rows, a slice assignment can change the length of   *)
(* a list.  `shape` names the constructor the store was made by; it gives  *)
(* the number of rows and their length at creation (DefaultWidth below).   *)
(***************************************************************************)

(***************************************************************************)
(* device_data: DeviceSpec                                                 *)
(*                                                                         *)
(* The codec takes every extent from the DeviceSpec it is bound to.  The   *)
(* model binds it to an instance with the tile shapes of the "8k" device   *)
(* (16 rows; 18, 42, 54 columns) on a 6 x 10 grid with two block-memory    *)
(* columns, so that every bank holds the border row, logic and block       *)
(* memory tiles and two block memories.                                    *)
(***************************************************************************)

max_x == 5

max_y == 9

tile_height == 16

bram_cols == <<1, 4>>

\* DeviceSpec.tile_type_width
tile_type_width(ttype) ==
    CASE ttype = "IO" -> 18
      [] ttype = "RAM_T" -> 42
      [] ttype = "RAM_B" -> 42
      [] ttype = "LOGIC" -> 54

\* one border row of 16 lines and 16 lines for every interior tile row of a half
cram_height == tile_height + ((max_y - 1) \div 2) * tile_height

\* IO + RAM + LOGIC columns of one half (114), filled up to a multiple of 8
cram_width == 120

\* 16 columns for every block memory of a bank
bram_width == 16 * ((max_y - 1) \div 4)

bram_height == 256

\* Mutant: the interior positions are yielded line by line.
get_tile_types_interior_by_line(spec) ==
    LET
        \* the tile type of an interior position
        InteriorType(x, y) ==
            IF \E k \in 1..Len(spec.bram_cols) : spec.bram_cols[k] = x
            THEN (IF y % 2 = 0 THEN "RAM_T" ELSE "RAM_B")
            ELSE "LOGIC"
    IN
    LET left_right == [k \in 1..(2 * (spec.max_y - 1)) |->
                          <<(IF k % 2 = 1 THEN <<0, (k + 1) \div 2>> ELSE <<spec.max_x, k \div 2>>), "IO">>]
        bottom_top == [k \in 1..(2 * (spec.max_x - 1)) |->
                          <<(IF k % 2 = 1 THEN <<(k + 1) \div 2, 0>> ELSE <<k \div 2, spec.max_y>>), "IO">>]
        interior   == [k \in 1..((spec.max_x - 1) * (spec.max_y - 1)) |->
                          LET y == ((k - 1) \div (spec.max_x - 1)) + 1
                              x == ((k - 1) % (spec.max_x - 1)) + 1
                          IN  <<<<x, y>>, InteriorType(x, y)>>]
    IN  left_right \o bottom_top \o interior

\* spec.get_tile_types(): the (position, type) pairs in the order yielded
get_tile_types_of(spec) ==
    LET
        \* the tile type of an interior position
        InteriorType(x, y) ==
            IF \E k \in 1..Len(spec.bram_cols) : spec.bram_cols[k] = x
            THEN (IF y % 2 = 0 THEN "RAM_T" ELSE "RAM_B")
            ELSE "LOGIC"
    IN
    LET left_right == [k \in 1..(2 * (spec.max_y - 1)) |->
                          <<(IF k % 2 = 1 THEN <<0, (k + 1) \div 2>> ELSE <<spec.max_x, k \div 2>>), "IO">>]
        bottom_top == [k \in 1..(2 * (spec.max_x - 1)) |->
                          <<(IF k % 2 = 1 THEN <<(k + 1) \div 2, 0>> ELSE <<k \div 2, spec.max_y>>), "IO">>]
        interior   == [k \in 1..((spec.max_x - 1) * (spec.max_y - 1)) |->
                          LET x == ((k - 1) \div (spec.max_y - 1)) + 1
                              y == ((k - 1) % (spec.max_y - 1)) + 1
                          IN  <<<<x, y>>, InteriorType(x, y)>>]
    IN  left_right \o bottom_top \o interior

\* get_tile_types of the DeviceSpec of the Configuration
get_tile_types == get_tile_types_of([max_x |-> max_x, max_y |-> max_y, bram_cols |-> bram_cols])

(***************************************************************************)
(* Configuration: the state and clear()                                    *)
(***************************************************************************)

\* the keys of _tiles after clear()
TilePositions == {get_tile_types[k][1] : k \in 1..Len(get_tile_types)}

\* _tile_types after clear(): the type last yielded for the position
TileTypeOf(pos) ==
    LET ks == {k \in 1..Len(get_tile_types) : get_tile_types[k][1] = pos}
        last == CHOOSE k \in ks : \A j \in ks : j <= k
    IN  get_tile_types[last][2]

\* the keys of _bram after clear()
BramPositions == {pos \in TilePositions : TileTypeOf(pos) = "RAM_B"}

\* the length a row of the store had when it was created
DefaultWidth(shape, key) ==
    CASE shape = "tiles" -> tile_type_width(TileTypeOf(key))
      [] shape = "bram" -> 256
      [] shape = "cram_banks" -> cram_width
      [] shape = "bram_banks" -> bram_width

\* the number of rows of each tuple of the store
DefaultHeight(shape) ==
    CASE shape = "tiles" -> tile_height
      [] shape = "bram" -> 16
      [] shape = "cram_banks" -> cram_height
      [] shape = "bram_banks" -> bram_height

\* a store with all bits False
BlankStore(shape, keys) == [shape |-> shape, keys |-> keys, resized |-> {}, ones |-> {}]

\* len(store[key][row])
RowLen(st, key, row) ==
    LET e == {r \in st.resized : r[1] = key /\ r[2] = row}
    IN  IF e = {} THEN DefaultWidth(st.shape, key) ELSE (CHOOSE r \in e : TRUE)[3]

\* store[key][row][col] for a column of the row
Cell(st, key, row, col) == <<key, row, col>> \in st.ones

\* store[key][row][col] = value for a column of the row
SetCell(st, key, row, col, value) ==
    [st EXCEPT !.ones = IF value THEN @ \cup {<<key, row, col>>} ELSE @ \ {<<key, row, col>>}]

\* list.__setitem__ with a slice of step 1 on a row of n elements: the stretch
\* start..stop-1 is replaced by the values, whatever their number, the elements
\* from stop on move, and the length of the row changes by the difference
SetSimpleSlice(st, key, row, n, start, stop, values) ==
    LET
        \* the store with len(store[key][row]) = length
        WithRowLen(st1, key1, row1, length) ==
            [st1 EXCEPT !.resized = {r \in @ : r[1] # key1 \/ r[2] # row1}
                                   \cup (IF length = DefaultWidth(st1.shape, key1) THEN {} ELSE {<<key1, row1, length>>})]
    IN
    [err |-> "none",
     st  |-> WithRowLen(
                 [st EXCEPT !.ones =
                     {c \in st.ones : ~(c[1] = key /\ c[2] = row /\ c[3] >= start)}
                     \cup {<<key, row, c[3] - stop + start + Len(values)>> :
                              c \in {d \in st.ones : d[1] = key /\ d[2] = row /\ d[3] >= stop}}
                     \cup {<<key, row, start + i - 1>> : i \in {j \in 1..Len(values) : values[j]}}],
                 key, row, n - (stop - start) + Len(values))]

\* the fields clear() sets
BlankConfiguration ==
    [tiles      |-> BlankStore("tiles", TilePositions),
     bram       |-> BlankStore("bram", BramPositions),
     extra_bits |-> << >>,
     comment    |-> << >>,
     freq_range |-> 0,
     warmboot   |-> TRUE,
     nosleep    |-> FALSE]

(***************************************************************************)
(* Block-memory values                                                     *)
(***************************************************************************)

\* 16 >> mode.value
value_length_from_mode(mode) == 16 \div (2 ^ mode)

block_size_from_mode(mode) == 4096 \div value_length_from_mode(mode)

split_bram_address(address) ==
    LET index  == address % 256
        offset == address \div 256
    IN  [row_index |-> index \div 16, col_index |-> index % 16, offset |-> offset]

\* Mutant: the bits of a value are read most significant first.
get_from_bram_data_msb_first(blocks, ram_block, address, mode) ==
    LET value_len == value_length_from_mode(mode)
        a         == split_bram_address(address)
        index     == a.col_index * 16 + a.offset
        step      == 16 \div value_len
        length    == RowLen(blocks, ram_block, a.row_index)
        bit(i)    == IF Cell(blocks, ram_block, a.row_index, index + i * step) THEN 2 ^ (value_len - 1 - i) ELSE 0
        sum[k \in 0..value_len] == IF k = 0 THEN 0 ELSE sum[k - 1] + bit(k - 1)
    IN  IF index + (value_len - 1) * step >= length
        THEN [err |-> "IndexError", value |-> 0]
        ELSE [err |-> "none", value |-> sum[value_len]]

\* get_from_bram_data on bram_data = blocks[ram_block]: bit i of the value is
\* row_data[index + i*step]; IndexError when one lies past the end of the row
get_from_bram_data(blocks, ram_block, address, mode) ==
    LET value_len == value_length_from_mode(mode)
        a         == split_bram_address(address)
        index     == a.col_index * 16 + a.offset
        step      == 16 \div value_len
        length    == RowLen(blocks, ram_block, a.row_index)
        bit(i)    == IF Cell(blocks, ram_block, a.row_index, index + i * step) THEN 2 ^ i ELSE 0
        sum[k \in 0..value_len] == IF k = 0 THEN 0 ELSE sum[k - 1] + bit(k - 1)
    IN  IF index + (value_len - 1) * step >= length
        THEN [err |-> "IndexError", value |-> 0]
        ELSE [err |-> "none", value |-> sum[value_len]]

\* Mutant: the value is not compared with the bit length of the mode.
set_in_bram_data_unchecked(blocks, ram_block, address, value, mode) ==
    LET value_len == value_length_from_mode(mode)
        a         == split_bram_address(address)
        index     == a.col_index * 16 + a.offset
        step      == 16 \div value_len
        length    == RowLen(blocks, ram_block, a.row_index)
        ok        == {i \in 0..(value_len - 1) : index + i * step < length}
        written   == {<<ram_block, a.row_index, index + i * step>> : i \in ok}
        true      == {<<ram_block, a.row_index, index + i * step>> : i \in {j \in ok : (value \div (2 ^ j)) % 2 = 1}}
    IN  [err |-> IF ok = 0..(value_len - 1) THEN "none" ELSE "IndexError",
         st  |-> [blocks EXCEPT !.ones = (@ \ written) \cup true]]

\* Mutant: the bits of a value are written to adjacent cells.
set_in_bram_data_adjacent(blocks, ram_block, address, value, mode) ==
    LET value_len == value_length_from_mode(mode)
        a         == split_bram_address(address)
        index     == a.col_index * 16 + a.offset
        length    == RowLen(blocks, ram_block, a.row_index)
        ok        == {i \in 0..(value_len - 1) : index + i < length}
        written   == {<<ram_block, a.row_index, index + i>> : i \in ok}
        true      == {<<ram_block, a.row_index, index + i>> : i \in {j \in ok : (value \div (2 ^ j)) % 2 = 1}}
    IN  IF value < 0 \/ value >= 2 ^ value_len
        THEN [err |-> "AssertionError", st |-> blocks]
        ELSE [err |-> IF ok = 0..(value_len - 1) THEN "none" ELSE "IndexError",
              st  |-> [blocks EXCEPT !.ones = (@ \ written) \cup true]]

\* set_in_bram_data on bram_data = blocks[ram_block]: the asserts, then bit i of
\* the value into row_data[index + i*step] for i = 0, 1, ...; the index grows, so
\* the bits below the end of the row are written before the IndexError
set_in_bram_data(blocks, ram_block, address, value, mode) ==
    LET value_len == value_length_from_mode(mode)
        a         == split_bram_address(address)
        index     == a.col_index * 16 + a.offset
        step      == 16 \div value_len
        length    == RowLen(blocks, ram_block, a.row_index)
        ok        == {i \in 0..(value_len - 1) : index + i * step < length}
        written   == {<<ram_block, a.row_index, index + i * step>> : i \in ok}
        true      == {<<ram_block, a.row_index, index + i * step>> : i \in {j \in ok : (value \div (2 ^ j)) % 2 = 1}}
    IN  IF value < 0 \/ value >= 2 ^ value_len
        THEN [err |-> "AssertionError", st |-> blocks]
        ELSE [err |-> IF ok = 0..(value_len - 1) THEN "none" ELSE "IndexError",
              st  |-> [blocks EXCEPT !.ones = (@ \ written) \cup true]]

\* get_bram_values: the values at address .. address+count-1, up to the first
\* error; KeyError when ram_block is no key of _bram
get_bram_values(blocks, ram_block, address, count, mode) ==
    LET one(k) == get_from_bram_data(blocks, ram_block, address + k - 1, mode)
        bad    == {k \in 1..count : one(k).err # "none"}
    IN  IF ram_block \notin blocks.keys THEN [err |-> "KeyError", values |-> << >>]
        ELSE IF bad = {}
        THEN [err |-> "none", values |-> [k \in 1..count |-> one(k).value]]
        ELSE [err |-> one(CHOOSE k \in bad : \A j \in bad : k <= j).err, values |-> << >>]

set_bram_values(blocks, ram_block, values, address, mode) ==
    LET
        \* set_bram_values: the values one after the other from the address on; an
        \* error ends the call and keeps what was written before it
        RECURSIVE set_bram_loop(_, _, _, _, _)
        set_bram_loop(blocks1, ram_block1, values2, address1, mode1) ==
            IF values2 = << >>
            THEN [err |-> "none", st |-> blocks1]
            ELSE LET r == set_in_bram_data(blocks1, ram_block1, address1, Head(values2), mode1)
                 IN  IF r.err # "none" THEN r
                     ELSE set_bram_loop(r.st, ram_block1, Tail(values2), address1 + 1, mode1)
    IN
    IF ram_block \notin blocks.keys THEN [err |-> "KeyError", st |-> blocks]
    ELSE set_bram_loop(blocks, ram_block, values, address, mode)

(***************************************************************************)
(* Bank geometry: _access_cram_banks                                       *)
(***************************************************************************)

\* DeviceSpec.extra_bits: the (bank, x, y) coordinates of the extra bits, in the
\* last two columns and lines of banks 0 and 1, outside every tile
spec_extra_bits ==
    [k \in 1..8 |-> <<(k - 1) \div 4,
                      cram_width - 2 + ((k - 1) % 2),
                      cram_height - 2 + (((k - 1) \div 2) % 2)>>]

\* the bank line of each group of a border tile
io_cram_y == <<15, 14, 12, 13, 11, 10, 8, 9, 7, 6, 4, 5, 3, 2, 0, 1>>

BankTop(bank_nr) == bank_nr % 2 = 1

BankRight(bank_nr) == bank_nr >= 2

\* y_range of a bank
BankYRange(bank_nr) ==
    IF BankTop(bank_nr)
    THEN Reversed(Range((max_y + 1) \div 2, max_y, 1))
    ELSE Range(1, (max_y + 1) \div 2, 1)

\* x_range of a bank
BankXRange(bank_nr) ==
    IF BankRight(bank_nr)
    THEN Reversed(Range((max_x + 1) \div 2, max_x + 1, 1))
    ELSE Range(0, (max_x + 1) \div 2, 1)

BankIoY(bank_nr) == IF BankTop(bank_nr) THEN max_y ELSE 0

\* the sum of the first n elements of a sequence of numbers
RECURSIVE SumFirst(_, _)
SumFirst(seq, n) == IF n = 0 THEN 0 ELSE SumFirst(seq, n - 1) + seq[n]

\* the widths of the tiles of x_range in tile row tile_y (widths[j] for x_range[j])
RowWidths(bank_nr, tile_y) ==
    [j \in 1..Len(BankXRange(bank_nr)) |->
        tile_type_width(TileTypeOf(<<BankXRange(bank_nr)[j], tile_y>>))]

\* First pass, the assignment for row `group` of the border tile at tile_x: its
\* bank line cram_y and the bank column x_off + cram_x of each of its bits,
\* cram_x mirrored in the row_width columns in a right bank
IoOpAt(bank_nr, tile_x, x_off, row_width, group) ==
    LET
        \* the bank columns of the 18 bits of a border tile, before mirroring
        cram_indices == <<23, 25, 26, 27, 16, 17, 18, 19, 20, 14, 32, 33, 34, 35, 36, 37, 4, 5>>
    IN
    [kind       |-> "io",
     bank       |-> bank_nr,
     pos        |-> <<tile_x, BankIoY(bank_nr)>>,
     row        |-> group,
     line       |-> io_cram_y[group + 1],
     tile_slice |-> slice(Some(0), Some(tile_type_width("IO")), None),
     cols       |-> [i \in 1..Len(cram_indices) |->
                        x_off + (IF BankRight(bank_nr) THEN row_width - 1 - cram_indices[i]
                                                       ELSE cram_indices[i])]]

\* Mutant: x_off is not advanced from one border tile to the next.
IoOp_x_off_kept(bank_nr, k, group) ==
    IoOpAt(bank_nr, BankXRange(bank_nr)[k],
           RowWidths(bank_nr, BankYRange(bank_nr)[1])[1],
           RowWidths(bank_nr, BankYRange(bank_nr)[1])[k], group)

\* First pass, tile k of x_range (k >= 2) and its row `group`.  x_off starts at
\* the width of the first tile of tile row y_range[0] and has grown by row_width,
\* the width of the tile of that row in the same column, for every border tile
\* before this one.
IoOp(bank_nr, k, group) ==
    IoOpAt(bank_nr, BankXRange(bank_nr)[k],
           SumFirst(RowWidths(bank_nr, BankYRange(bank_nr)[1]), k - 1),
           RowWidths(bank_nr, BankYRange(bank_nr)[1])[k], group)

\* the number of assignments of the first pass and of both passes on one bank
CramIoOpCount == (Len(BankXRange(0)) - 1) * Len(io_cram_y)

CramOpCount == CramIoOpCount + Len(BankYRange(0)) * Len(BankXRange(0)) * tile_height

\* assignment number i (from 0) of the loops on one bank: the first pass before
\* the second, tile_y before tile_x before group
CramBankOp(bank_nr, i) ==
    LET
        \* Second pass, the assignment for row `group` of the tile at tile_pos: its bank
        \* line cram_y (counted down from the last line of the tile in a top bank) and
        \* group_slice, the stretch of that line that carries the row, reversed in a
        \* right bank and for a border tile
        TileOpAt(bank_nr2, tile_pos, x_off, y_off, tile_width, group) ==
            [kind       |-> "tile",
             bank       |-> bank_nr2,
             pos        |-> tile_pos,
             row        |-> group,
             line       |-> IF BankTop(bank_nr2) THEN y_off + tile_height - 1 - group ELSE y_off + group,
             tile_slice |-> slice(Some(0), Some(tile_width), None),
             bank_slice |-> IF BankRight(bank_nr2) \/ TileTypeOf(tile_pos) = "IO"
                            THEN reverse_slice(slice(Some(x_off), Some(x_off + tile_width), None))
                            ELSE slice(Some(x_off), Some(x_off + tile_width), None)]
        \* Second pass, tile xi of x_range in tile row yi of y_range and its row `group`:
        \* x_off is the sum of the widths of the tiles before it in the row, y_off
        \* tile_height for the border row and for every tile row before this one
        TileOp(bank_nr1, yi, xi, group) ==
            TileOpAt(bank_nr1, <<BankXRange(bank_nr1)[xi], BankYRange(bank_nr1)[yi]>>,
                     SumFirst(RowWidths(bank_nr1, BankYRange(bank_nr1)[yi]), xi - 1),
                     tile_height + (yi - 1) * tile_height,
                     RowWidths(bank_nr1, BankYRange(bank_nr1)[yi])[xi], group)
    IN
    IF i < CramIoOpCount
    THEN IoOp(bank_nr, (i \div Len(io_cram_y)) + 2, i % Len(io_cram_y))
    ELSE TileOp(bank_nr,
                ((i - CramIoOpCount) \div (Len(BankXRange(bank_nr)) * tile_height)) + 1,
                (((i - CramIoOpCount) \div tile_height) % Len(BankXRange(bank_nr))) + 1,
                (i - CramIoOpCount) % tile_height)

\* assignment number n (from 1) of _access_cram_banks, bank after bank
CramOp(n) == CramBankOp((n - 1) \div CramOpCount, (n - 1) % CramOpCount)

(***************************************************************************)
(* Bank geometry: _access_bram_banks                                       *)
(***************************************************************************)

\* the assignment for word bank_y of the block memory at (tile_x, tile_y): 16
\* bits of row row_index of its matrix and the reversed 16 columns of the block
\* in bank line bank_y
BramOpAt(bank_nr, tile_x, tile_y, block_nr, bank_y) ==
    [kind       |-> "bram",
     bank       |-> bank_nr,
     pos        |-> <<tile_x, tile_y>>,
     row        |-> bank_y \div 16,
     line       |-> bank_y,
     tile_slice |-> slice(Some((bank_y % 16) * 16), Some(((bank_y % 16) + 1) * 16), None),
     bank_slice |-> reverse_slice(slice(Some(block_nr * 16), Some((block_nr + 1) * 16), None))]

\* Mutant: the blocks of a top bank are taken from the bottom half.
BramOp_no_top(bank_nr, block_nr, bank_y) ==
    BramOpAt(bank_nr, bram_cols[(bank_nr \div 2) + 1], block_nr * 2 + 1, block_nr, bank_y)

\* block block_nr of a bank: column bram_cols[bank_nr//2], every second tile row
\* from 1 on, max_y//2 higher in a top bank
BramOp(bank_nr, block_nr, bank_y) ==
    BramOpAt(bank_nr, bram_cols[(bank_nr \div 2) + 1],
             block_nr * 2 + 1 + (IF BankTop(bank_nr) THEN max_y \div 2 ELSE 0),
             block_nr, bank_y)

\* the number of assignments on one bank
BramOpCount == (bram_width \div 16) * bram_height

(***************************************************************************)
(* Bank geometry: running the assignments                                  *)
(*                                                                         *)
(* Both mappers run a fixed list of assignments between rows of the        *)
(* matrices (tiles or block memories) and lines of the banks.  An          *)
(* assignment between a row and a line that both have the length they were *)
(* created with and hold no True in the columns it covers copies False     *)
(* over False; the lists are run over the other assignments only.          *)
(***************************************************************************)

\* the assignments of a mapper ("cram" or "bram") by number
OpAt(mapper, n) ==
    LET
        \* assignment number n (from 1) of _access_bram_banks, in the order of the loops
        BramOp_n(n1) ==
            BramOp((n1 - 1) \div BramOpCount, ((n1 - 1) % BramOpCount) \div bram_height, (n1 - 1) % bram_height)
    IN
    IF mapper = "cram" THEN CramOp(n) ELSE BramOp_n(n)

\* the position of a value in a list (from 1)
IndexIn(seq, v) == CHOOSE k \in 1..Len(seq) : seq[k] = v

\* one of the values of a list is v
Holds(seq, v) == \E k \in 1..Len(seq) : seq[k] = v

\* the numbers of the assignments that have to be run: those that cover a True
\* cell; with a row or line of changed length, all on a marked row or line and
\* all beside them (an assignment can change the length of the row it assigns)
OpsToRun(mapper, mats, banks) ==
    LET
        \* the bank whose loops reach the tile: the right banks hold the columns from
        \* (max_x+1)//2 on, the top banks the rows from (max_y+1)//2 on
        BankOfTile(pos) ==
            (IF pos[1] >= (max_x + 1) \div 2 THEN 2 ELSE 0) + (IF pos[2] >= (max_y + 1) \div 2 THEN 1 ELSE 0)
        \* the numbers of the assignments on row `row` of the matrix of `pos`: one for a
        \* tile (of the first pass for a tile of the bottom or top border), 16 for a
        \* block memory (one for every 16 columns)
        OpsOfMatrixRow(mapper4, pos, row) ==
            IF mapper4 = "cram"
            THEN LET bank_nr == BankOfTile(pos)
                     xi      == IndexIn(BankXRange(bank_nr), pos[1])
                     nx      == Len(BankXRange(bank_nr))
                 IN  IF pos[2] = BankIoY(bank_nr)
                     THEN {bank_nr * CramOpCount + (xi - 2) * Len(io_cram_y) + row + 1}
                     ELSE {bank_nr * CramOpCount + CramIoOpCount
                           + (IndexIn(BankYRange(bank_nr), pos[2]) - 1) * nx * tile_height
                           + (xi - 1) * tile_height + row + 1}
            ELSE LET top      == pos[2] > max_y \div 2
                     bank_nr  == 2 * (IndexIn(bram_cols, pos[1]) - 1) + (IF top THEN 1 ELSE 0)
                     block_nr == (pos[2] - (IF top THEN max_y \div 2 ELSE 0) - 1) \div 2
                 IN  {bank_nr * BramOpCount + block_nr * bram_height + row * 16 + col_index + 1 :
                         col_index \in 0..15}
        \* the numbers of the assignments on line `line` of bank `bank_nr`
        OpsOfBankLine(mapper3, bank_nr, line) ==
            IF mapper3 = "cram"
            THEN LET nx == Len(BankXRange(bank_nr))
                 IN  IF line < tile_height
                     THEN {bank_nr * CramOpCount + (k - 2) * Len(io_cram_y) + IndexIn(io_cram_y, line) :
                              k \in 2..nx}
                     ELSE LET yi    == (line - tile_height) \div tile_height
                              in_y  == (line - tile_height) % tile_height
                              group == IF BankTop(bank_nr) THEN tile_height - 1 - in_y ELSE in_y
                          IN  {bank_nr * CramOpCount + CramIoOpCount + yi * nx * tile_height
                               + (xi - 1) * tile_height + group + 1 : xi \in 1..nx}
            ELSE {bank_nr * BramOpCount + block_nr * bram_height + line + 1 :
                     block_nr \in 0..((bram_width \div 16) - 1)}
        \* the numbers of the assignments that share a row or line with one of `direct`
        OpsBeside(mapper2, direct) ==
            UNION {OpsOfMatrixRow(mapper2, op.pos, op.row) \cup OpsOfBankLine(mapper2, op.bank, op.line) :
                      op \in {OpAt(mapper2, n) : n \in direct}}
        \* the columns of the bank line an assignment covers, as a sequence
        BankColumns(op, length) ==
            IF op.kind = "io" THEN op.cols ELSE SliceIndices(op.bank_slice, length)
        \* the assignment covers a cell that holds True (rows and lines of the length
        \* they were created with)
        CoversTrue(op, mats5, banks7) ==
            \/ \E c \in mats5.ones :
                  /\ c[1] = op.pos /\ c[2] = op.row
                  /\ Holds(SliceIndices(op.tile_slice, DefaultWidth(mats5.shape, op.pos)), c[3])
            \/ \E c \in banks7.ones :
                  /\ c[1] = op.bank /\ c[2] = op.line
                  /\ Holds(BankColumns(op, DefaultWidth(banks7.shape, op.bank)), c[3])
        \* the numbers of the assignments on a row or line that holds True or has
        \* changed its length
        OpsOnMarked(mapper1, mats4, banks6) ==
            UNION {OpsOfMatrixRow(mapper1, c[1], c[2]) : c \in mats4.ones \cup mats4.resized}
            \cup UNION {OpsOfBankLine(mapper1, c[1], c[2]) : c \in banks6.ones \cup banks6.resized}
    IN
    IF mats.resized = {} /\ banks.resized = {}
    THEN {n \in OpsOnMarked(mapper, mats, banks) : CoversTrue(OpAt(mapper, n), mats, banks)}
    ELSE OpsOnMarked(mapper, mats, banks) \cup OpsBeside(mapper, OpsOnMarked(mapper, mats, banks))

\* One assignment.  read: the matrix row from the bank line; otherwise the bank
\* line from the matrix row.  Outside the first pass it is first_from_second /
\* second_from_first, one slice assigned from another.
ExecOp(op, mats, banks, read) ==
    LET
        \* list.__setitem__ with an extended slice (step # 1) selecting the columns idx:
        \* as many values as columns are needed (ValueError otherwise)
        SetExtendedSlice(st, key, row, idx, values) ==
            IF Len(idx) # Len(values)
            THEN [err |-> "ValueError", st |-> st]
            ELSE [err |-> "none",
                  st  |-> [st EXCEPT !.ones =
                              (@ \ {<<key, row, idx[i]>> : i \in 1..Len(idx)})
                              \cup {<<key, row, idx[i]>> : i \in {j \in 1..Len(idx) : values[j]}}]]
        \* list.__setitem__ with the adjusted slice a on a row of n elements
        SetAdjustedSlice(st, key, row, n, a, values) ==
            IF a.step = 1
            THEN SetSimpleSlice(st, key, row, n, a.start, IF a.stop < a.start THEN a.start ELSE a.stop, values)
            ELSE SetExtendedSlice(st, key, row, AdjustedRange(a), values)
        \* store[key][row][s] = values; the exception raised and the store after it
        RowSetSlice(st, key, row, s, values) ==
            SetAdjustedSlice(st, key, row, RowLen(st, key, row), SliceAdjust(s, RowLen(st, key, row)), values)
        \* the cells of a row at 0-based columns
        CellsAt(st, key, row, idx) == [k \in 1..Len(idx) |-> Cell(st, key, row, idx[k])]
        \* the outcome of an assignment to a matrix row / to a bank line
        MatsAssigned(r, banks9) == [err |-> r.err, mats |-> r.st, banks |-> banks9]
        \* tile_data[group][0:io_width] = [cram_bank[cram_y][x_off+i] for i in cram_indices]:
        \* IndexError at a column past the end of the bank line, before anything is assigned
        ReadIoOp(op3, mats6, banks8) ==
            IF \E i \in 1..Len(op3.cols) : op3.cols[i] >= RowLen(banks8, op3.bank, op3.line)
            THEN [err |-> "IndexError", mats |-> mats6, banks |-> banks8]
            ELSE MatsAssigned(RowSetSlice(mats6, op3.pos, op3.row, op3.tile_slice,
                                          CellsAt(banks8, op3.bank, op3.line, op3.cols)),
                              banks8)
        \* cram_bank[cram_y][x_off+cram_x] = tile_data[group][index], index after index:
        \* `bad` are the indices past the end of the tile row or with a column past the
        \* end of the bank line; the cells before the first of them are assigned
        WriteIoCells(op2, mats3, banks5, bad) ==
            [err   |-> IF bad = {} THEN "none" ELSE "IndexError",
             mats  |-> mats3,
             banks |-> [banks5 EXCEPT !.ones =
                           (@ \ {<<op2.bank, op2.line, op2.cols[i]>> :
                                    i \in {j \in 1..Len(op2.cols) : \A b \in bad : j < b}})
                           \cup {<<op2.bank, op2.line, op2.cols[i]>> :
                                    i \in {j \in 1..Len(op2.cols) :
                                              (\A b \in bad : j < b) /\ Cell(mats3, op2.pos, op2.row, j - 1)}}]]
        WriteIoOp(op1, mats2, banks4) ==
            WriteIoCells(op1, mats2, banks4,
                         {i \in 1..Len(op1.cols) :
                             \/ i - 1 >= RowLen(mats2, op1.pos, op1.row)
                             \/ op1.cols[i] >= RowLen(banks4, op1.bank, op1.line)})
        \* store[key][row][s] for a slice s
        RowGetSlice(st, key, row, s) == CellsAt(st, key, row, SliceIndices(s, RowLen(st, key, row)))
        BanksAssigned(r, mats1) == [err |-> r.err, mats |-> mats1, banks |-> r.st]
    IN
    IF op.kind = "io"
    THEN (IF read THEN ReadIoOp(op, mats, banks) ELSE WriteIoOp(op, mats, banks))
    ELSE IF read
    THEN MatsAssigned(RowSetSlice(mats, op.pos, op.row, op.tile_slice,
                                  RowGetSlice(banks, op.bank, op.line, op.bank_slice)),
                      banks)
    ELSE BanksAssigned(RowSetSlice(banks, op.bank, op.line, op.bank_slice,
                                   RowGetSlice(mats, op.pos, op.row, op.tile_slice)),
                       mats)

\* the smallest number of a set
Lowest(todo) == CHOOSE m \in todo : \A o \in todo : m <= o

\* the assignments `todo` in the order of the loops, up to the first exception
RECURSIVE RunOps(_, _, _, _, _)
RECURSIVE RunRest(_, _, _, _)
RunOps(mapper, todo, mats, banks, read) ==
    IF todo = {}
    THEN [err |-> "none", mats |-> mats, banks |-> banks]
    ELSE RunRest(mapper, todo \ {Lowest(todo)},
                 ExecOp(OpAt(mapper, Lowest(todo)), mats, banks, read), read)

\* after an assignment with outcome r: the exception ends the call
RunRest(mapper, rest, r, read) ==
    IF r.err # "none" THEN r ELSE RunOps(mapper, rest, r.mats, r.banks, read)

\* _access_cram_banks(cram, read) on a Configuration with the given tiles and
\* extra bits: the exception raised and the tiles, banks and extra bits after it
access_cram_banks(tls, cram, extra, read) ==
    LET
        \* the cell of an extra bit <<bank, x, y>> lies in the bank
        ExtraInBank(cram3, extra3) == extra3[2] < RowLen(cram3, extra3[1], extra3[3])
        \* write: the bank cell of every extra bit of _extra_bits is set to True
        RECURSIVE write_extra_bits(_, _)
        write_extra_bits(cram2, todo) ==
            IF todo = << >> THEN [err |-> "none", st |-> cram2]
            ELSE IF ~ExtraInBank(cram2, Head(todo)) THEN [err |-> "IndexError", st |-> cram2]
            ELSE write_extra_bits(SetCell(cram2, Head(todo)[1], Head(todo)[3], Head(todo)[2], TRUE), Tail(todo))
        \* read: _extra_bits is emptied and gets every extra bit of the geometry whose
        \* bank cell is True, in the order of the geometry
        RECURSIVE read_extra_bits(_, _, _)
        read_extra_bits(cram1, todo, found) ==
            IF todo = << >> THEN [err |-> "none", extra_bits |-> found]
            ELSE IF ~ExtraInBank(cram1, Head(todo)) THEN [err |-> "IndexError", extra_bits |-> found]
            ELSE read_extra_bits(cram1, Tail(todo),
                                 IF Cell(cram1, Head(todo)[1], Head(todo)[3], Head(todo)[2])
                                 THEN Append(found, Head(todo)) ELSE found)
        \* the extra bits after the loops with outcome r, read: _extra_bits from the banks
        ExtraBitsRead(r, e) ==
            [err |-> e.err, tiles |-> r.mats, cram |-> r.banks, extra_bits |-> e.extra_bits]
        \* the extra bits after the loops with outcome r, write: into the banks
        ExtraBitsWritten(r, e, extra2) ==
            [err |-> e.err, tiles |-> r.mats, cram |-> e.st, extra_bits |-> extra2]
        \* the extra bits after the loops with outcome r; an exception in the loops
        \* ends the call before them
        AfterCramLoops(r, extra1, read1) ==
            IF r.err # "none"
            THEN [err |-> r.err, tiles |-> r.mats, cram |-> r.banks, extra_bits |-> extra1]
            ELSE IF read1
            THEN ExtraBitsRead(r, read_extra_bits(r.banks, spec_extra_bits, << >>))
            ELSE ExtraBitsWritten(r, write_extra_bits(r.banks, extra1), extra1)
    IN
    AfterCramLoops(RunOps("cram", OpsToRun("cram", tls, cram), tls, cram, read), extra, read)

\* _access_bram_banks(bram, read)
access_bram_banks(blocks, banks, read) ==
    LET
        \* the outcome of _access_bram_banks after the loops with outcome r
        AfterBramLoops(r) == [err |-> r.err, bram |-> r.mats, banks |-> r.banks]
    IN
    AfterBramLoops(RunOps("bram", OpsToRun("bram", blocks, banks), blocks, banks, read))

(***************************************************************************)
(* Characters and bytes.  A character is its code point, a str the         *)
(* sequence of its characters, a bytes object the sequence of its bytes.   *)
(* The texts of the model are ASCII, where encode("utf-8") yields one byte *)
(* per character, the code point.                                          *)
(***************************************************************************)

\* ord(ch) of the characters the texts of the model are made of
ord(ch) ==
    LET
        \* the characters "a" to "z", code points 97 to 122
        AsciiLower ==
            <<"a", "b", "c", "d", "e", "f", "g", "h", "i", "j", "k", "l", "m",
              "n", "o", "p", "q", "r", "s", "t", "u", "v", "w", "x", "y", "z">>
        \* the characters "0" to "9", code points 48 to 57
        AsciiDigits == <<"0", "1", "2", "3", "4", "5", "6", "7", "8", "9">>
    IN
    CASE ch = "\n" -> 10
      [] ch = " " -> 32
      [] ch = "." -> 46
      [] ch = "_" -> 95
      [] Holds(AsciiDigits, ch) -> 47 + IndexIn(AsciiDigits, ch)
      [] Holds(AsciiLower, ch) -> 96 + IndexIn(AsciiLower, ch)

\* the str with the given characters
Str(chars) == [k \in 1..Len(chars) |-> ord(chars[k])]

\* "\n"
LF == ord("\n")

\* the concatenation of a list of sequences
RECURSIVE Join(_)
Join(seqs) == IF seqs = << >> THEN << >> ELSE Head(seqs) \o Join(Tail(seqs))

\* the position of the first sep in text from position k on, 0 without one
RECURSIVE Find(_, _, _)
Find(text, sep, k) ==
    IF k > Len(text) THEN 0 ELSE IF text[k] = sep THEN k ELSE Find(text, sep, k + 1)

(***************************************************************************)
(* CRC                                                                     *)
(***************************************************************************)

\* binascii.crc_hqx of one byte
crc_byte(value, byte) ==
    LET
        \* a ^ b for two naturals below 2^n
        RECURSIVE BitXor(_, _, _)
        BitXor(a, b, n) ==
            IF n = 0 THEN 0 ELSE ((a + b) % 2) + 2 * BitXor(a \div 2, b \div 2, n - 1)
        \* one bit of CRC-CCITT: shift left, the polynomial 0x1021 on carry
        crc_shift(value2) ==
            IF value2 >= 32768 THEN BitXor((2 * value2) % 65536, 4129, 16) ELSE 2 * value2
        RECURSIVE crc_shifts(_, _)
        crc_shifts(value1, n) == IF n = 0 THEN value1 ELSE crc_shifts(crc_shift(value1), n - 1)
    IN
    crc_shifts(BitXor(value, 256 * byte, 16), 8)

\* binascii.crc_hqx(data, value)
crc_hqx(data, value) ==
    LET
        \* binascii.crc_hqx of the bytes first..last of the data, one half after the
        \* other; the value is a 16 bit number, and comparing it first has it computed
        \* before the bytes are folded in
        RECURSIVE crc_bytes(_, _, _, _)
        crc_bytes(data2, first, last, value3) ==
            IF value3 > 65535 \/ first > last THEN value3
            ELSE IF first = last THEN crc_byte(value3, data2[first])
            ELSE crc_bytes(data2, ((first + last) \div 2) + 1, last,
                           crc_bytes(data2, first, (first + last) \div 2, value3))
    IN
    crc_bytes(data, 1, Len(data), value)

\* CRC.reset
crc_reset_value == 65535

(***************************************************************************)
(* BinOut: the bytes each method writes                                    *)
(***************************************************************************)

\* value.to_bytes(2, "big")
to_bytes2(value) == <<(value \div 256) % 256, value % 256>>

\* BinOut.write_comment
write_comment(text) ==
    LET
        \* text.split(sep) for a separator of one character
        RECURSIVE Split(_, _)
        Split(text2, sep) ==
            IF Find(text2, sep, 1) = 0
            THEN <<text2>>
            ELSE <<SubSeq(text2, 1, Find(text2, sep, 1) - 1)>>
                 \o Split(SubSeq(text2, Find(text2, sep, 1) + 1, Len(text2)), sep)
        \* text.encode("utf-8")
        encode_utf8(text1) == text1
        \* the lines of a comment, each followed by 0x00
        comment_lines(lines) == Join([k \in 1..Len(lines) |-> encode_utf8(lines[k]) \o <<0>>])
    IN
    <<255, 0>> \o (IF text # << >> THEN comment_lines(Split(text, LF)) ELSE << >>) \o <<0, 255>>

\* BinOut.write_preamble
write_preamble == <<126, 170, 153, 126>>

\* BinOut.write_freq_range
write_freq_range(fr) == <<81, fr>>

\* BinOut.crc_reset
crc_reset == <<1, 5>>

\* BinOut.write_warmboot
write_warmboot(wb, ns) == <<146, 0, (IF ns THEN 1 ELSE 0) + (IF wb THEN 32 ELSE 0)>>

\* BinOut.set_bank_number
set_bank_number(number) == <<17, number>>

\* BinOut.set_bank_width
set_bank_width(width) == <<98>> \o to_bytes2(width)

\* BinOut.set_bank_height
set_bank_height(height) == <<114>> \o to_bytes2(height)

\* BinOut.set_bank_offset
set_bank_offset(offset) == <<130>> \o to_bytes2(offset)

\* c.write_bin(bin_file, *opt): the exception raised and the bytes written;
\* the method takes the file only, a further argument is a TypeError
write_bin(c, opt) ==
    LET
        \* the bytes write_bin writes once the banks are computed
        write_bin_bytes(c12) ==
            write_comment(c12.comment) \o write_preamble \o write_freq_range(c12.freq_range)
            \o crc_reset \o write_warmboot(c12.warmboot, c12.nosleep)
        \* after _get_cram_banks with outcome r: _get_bram_banks, then the writes
        write_bin_bram(c11, r) ==
            IF r.err # "none" THEN [err |-> r.err, file |-> << >>]
            ELSE [err |-> "none", file |-> write_bin_bytes(c11)]
        \* after _get_cram_banks with outcome r
        write_bin_cram(c10, r) ==
            IF r.err # "none" THEN [err |-> r.err, file |-> << >>]
            ELSE write_bin_bram(c10, access_bram_banks(c10.bram, BlankStore("bram_banks", 0..3), FALSE))
    IN
    IF opt # None THEN [err |-> "TypeError", file |-> << >>]
    ELSE write_bin_cram(c, access_cram_banks(c.tiles, BlankStore("cram_banks", 0..3), c.extra_bits, FALSE))

(***************************************************************************)
(* read_bin.  The file is the sequence of its bytes, pos the 1-based       *)
(* position of the next unread byte.                                       *)
(***************************************************************************)

\* Mutant: fewer bytes than asked for are returned without an exception, as
\* long as one byte is left.
get_bytes_crc_short_read(file, pos, size, crc) ==
    IF pos + size - 1 > Len(file) /\ (pos > Len(file) \/ size = 1)
    THEN [err |-> "EOFError", data |-> << >>, pos |-> Len(file) + 1, crc |-> crc]
    ELSE IF pos + size - 1 > Len(file)
    THEN [err |-> "none", data |-> SubSeq(file, pos, Len(file)), pos |-> Len(file) + 1,
          crc |-> crc_hqx(SubSeq(file, pos, Len(file)), crc)]
    ELSE [err |-> "none", data |-> SubSeq(file, pos, pos + size - 1), pos |-> pos + size,
          crc |-> crc_hqx(SubSeq(file, pos, pos + size - 1), crc)]

\* get_bytes_crc(bin_file, size, crc): EOFError when fewer bytes are left
get_bytes_crc(file, pos, size, crc) ==
    IF pos + size - 1 > Len(file)
    THEN [err |-> "EOFError", data |-> << >>, pos |-> Len(file) + 1, crc |-> crc]
    ELSE [err |-> "none", data |-> SubSeq(file, pos, pos + size - 1), pos |-> pos + size,
          crc |-> crc_hqx(SubSeq(file, pos, pos + size - 1), crc)]

\* expect_bytes(bin_file, exp, crc, msg), format the format of exp and val in
\* msg
expect_bytes(file, pos, exp, crc, format) ==
    LET
        \* expect_bytes after the read with outcome r: other bytes than the expected
        \* raise MalformedBitstreamError with the formatted message; a message that
        \* formats the bytes with 04x raises TypeError instead (bytes have no such
        \* format)
        expected(r, exp1, format1) ==
            IF r.err = "none" /\ r.data # exp1
            THEN [r EXCEPT !.err = IF format1 = "04x" THEN "TypeError" ELSE "MalformedBitstreamError"]
            ELSE r
    IN
    expected(get_bytes_crc(file, pos, Len(exp), crc), exp, format)

\* the smaller of two numbers
Min(a, b) == IF a < b THEN a ELSE b

\* data_to_xram from line y on; s holds bank_nr, bank_width, bank_height and
\* bank_offset
RECURSIVE data_to_xram(_, _, _, _)
data_to_xram(data, banks, s, y) ==
    LET
        \* the bits of the bytes, most significant bit first
        bit_data(data1) ==
            [k \in 1..(8 * Len(data1)) |-> (data1[((k - 1) \div 8) + 1] \div (2 ^ (7 - ((k - 1) % 8)))) % 2 = 1]
    IN
    IF y >= Val(s.bank_height) THEN [err |-> "none", st |-> banks]
    ELSE IF IsNone(s.bank_nr) THEN [err |-> "TypeError", st |-> banks]
    ELSE IF Val(s.bank_nr) \notin banks.keys THEN [err |-> "IndexError", st |-> banks]
    ELSE IF IsNone(s.bank_offset) THEN [err |-> "TypeError", st |-> banks]
    ELSE IF y + Val(s.bank_offset) >= DefaultHeight(banks.shape) THEN [err |-> "IndexError", st |-> banks]
    ELSE data_to_xram(data,
             SetSimpleSlice(banks, Val(s.bank_nr), y + Val(s.bank_offset),
                 RowLen(banks, Val(s.bank_nr), y + Val(s.bank_offset)), 0,
                 Min(Val(s.bank_width), RowLen(banks, Val(s.bank_nr), y + Val(s.bank_offset))),
                 bit_data(SubSeq(data, ((y * Val(s.bank_width)) \div 8) + 1,
                                 ((y + 1) * Val(s.bank_width)) \div 8))).st,
             s, y + 1)

\* opcode 2 without the check of the CRC
crc_check_skipped(s) == s

\* opcode 2: the running CRC has to be zero
crc_check(s) ==
    IF s.crc # 0 THEN [s EXCEPT !.err = "MalformedBitstreamError"] ELSE s

\* the loop over the commands: the end of the file between two commands ends it
RECURSIVE commands(_, _)
commands(file, s) ==
    LET
        \* a data command after the two bytes behind the data were read with outcome e
        load_trailer(s7, kind, x, e) ==
            IF e.err # "none" THEN [s7 EXCEPT !.err = e.err]
            ELSE IF kind = "cram" THEN [s7 EXCEPT !.pos = e.pos, !.crc = e.crc, !.cram = x.st]
            ELSE [s7 EXCEPT !.pos = e.pos, !.crc = e.crc, !.bram = x.st]
        \* a data command after data_to_xram with outcome x
        load_stored(file8, s6, kind, r, x) ==
            IF x.err # "none" THEN [s6 EXCEPT !.err = x.err]
            ELSE load_trailer(s6, kind, x, expect_bytes(file8, r.pos, <<0, 0>>, r.crc, "04x"))
        \* a data command after its data were read with outcome r
        load_data(file7, s5, kind, r) ==
            IF r.err # "none" THEN [s5 EXCEPT !.err = r.err]
            ELSE load_stored(file7, s5, kind, r,
                             data_to_xram(r.data, IF kind = "cram" THEN s5.cram ELSE s5.bram, s5, 0))
        \* opcode 0 with payload 1 (CRAM data) or 3 (BRAM data); get_data_len fails
        \* without a width or a height
        load(file6, s4, kind) ==
            IF IsNone(s4.bank_width) \/ IsNone(s4.bank_height)
            THEN [s4 EXCEPT !.err = "MalformedBitstreamError"]
            ELSE load_data(file6, s4, kind,
                           get_bytes_crc(file6, s4.pos, (Val(s4.bank_width) * Val(s4.bank_height)) \div 8, s4.crc))
        \* opcode 0
        opcode_0(file5, s3, payload) ==
            CASE payload = 1 -> load(file5, s3, "cram")
              [] payload = 3 -> load(file5, s3, "bram")
              [] payload = 5 -> [s3 EXCEPT !.crc = crc_reset_value]
              [] payload = 6 -> [s3 EXCEPT !.done = TRUE]
              [] OTHER -> [s3 EXCEPT !.err = "MalformedBitstreamError"]
        \* the branches on the opcode
        dispatch(file4, s2, opcode, payload) ==
            CASE opcode = 0 -> opcode_0(file4, s2, payload)
              [] opcode = 1 -> [s2 EXCEPT !.bank_nr = Some(payload)]
              [] opcode = 2 -> crc_check(s2)
              [] opcode = 5 -> IF payload \in 0..2 THEN [s2 EXCEPT !.cfg.freq_range = payload]
                               ELSE [s2 EXCEPT !.err = "MalformedBitstreamError"]
              [] opcode = 6 -> [s2 EXCEPT !.bank_width = Some(payload + 1)]
              [] opcode = 7 -> [s2 EXCEPT !.bank_height = Some(payload)]
              [] opcode = 8 -> [s2 EXCEPT !.bank_offset = Some(payload)]
              [] opcode = 9 -> [s2 EXCEPT !.cfg.nosleep = (payload % 2 = 1),
                                         !.cfg.warmboot = ((payload \div 32) % 2 = 1)]
              [] OTHER -> [s2 EXCEPT !.err = "MalformedBitstreamError"]
        \* the payload bytes as a number, most significant byte first
        RECURSIVE big_endian(_, _)
        big_endian(data, payload) ==
            IF data = << >> THEN payload ELSE big_endian(Tail(data), payload * 256 + Head(data))
        \* a command after its payload bytes were read with outcome r
        with_payload(file3, s1, command, r) ==
            IF r.err # "none" THEN [s1 EXCEPT !.err = r.err]
            ELSE dispatch(file3, [s1 EXCEPT !.pos = r.pos, !.crc = r.crc], command \div 16, big_endian(r.data, 0))
    IN
    IF s.err # "none" \/ s.done \/ s.pos > Len(file) THEN s
    ELSE commands(file,
             with_payload(file, s, file[s.pos],
                 get_bytes_crc(file, s.pos + 1, file[s.pos] % 16, crc_byte(s.crc, file[s.pos]))))

\* the outcome of read_bin
ReadResult(err, cfg) == [err |-> err, cfg |-> cfg]

\* after the loop over the commands with outcome s: _read_cram_banks
read_cram_banks(s, r) ==
    LET
        \* after _read_cram_banks with outcome r: _read_bram_banks
        read_bram_banks(cfg, r1) ==
            ReadResult(r1.err, [cfg EXCEPT !.bram = r1.bram])
    IN
    IF r.err # "none" THEN ReadResult(r.err, [s.cfg EXCEPT !.tiles = r.tiles])
    ELSE read_bram_banks([s.cfg EXCEPT !.tiles = r.tiles, !.extra_bits = r.extra_bits],
                         access_bram_banks(s.cfg.bram, s.bram, TRUE))

\* after the loop over the commands with outcome s
read_banks(s) ==
    IF s.err # "none" THEN ReadResult(s.err, s.cfg)
    ELSE read_cram_banks(s, access_cram_banks(s.cfg.tiles, s.cram, s.cfg.extra_bits, TRUE))

\* Mutant: the loop over the commands goes on after a wakeup.
read_commands_past_wakeup(c, file, p) ==
    LET
        \* the loop taken up again after every wakeup
        RECURSIVE go_on(_, _)
        go_on(file1, s) ==
            IF s.done /\ s.err = "none" THEN go_on(file1, commands(file1, [s EXCEPT !.done = FALSE])) ELSE s
    IN
    IF p.err # "none" THEN ReadResult(p.err, c)
    ELSE read_banks(go_on(file, commands(file,
             [err |-> "none", done |-> FALSE, pos |-> p.pos, crc |-> p.crc, cfg |-> c,
              bank_nr |-> None, bank_width |-> None, bank_height |-> None, bank_offset |-> None,
              cram |-> BlankStore("cram_banks", 0..3), bram |-> BlankStore("bram_banks", 0..3)])))

\* after the search for the preamble with outcome p: blank banks, no bank
\* parameters
read_commands(c, file, p) ==
    IF p.err # "none" THEN ReadResult(p.err, c)
    ELSE read_banks(commands(file,
             [err |-> "none", done |-> FALSE, pos |-> p.pos, crc |-> p.crc, cfg |-> c,
              bank_nr |-> None, bank_width |-> None, bank_height |-> None, bank_offset |-> None,
              cram |-> BlankStore("cram_banks", 0..3), bram |-> BlankStore("bram_banks", 0..3)]))

\* Mutant: the end of the input in the search for the preamble is a malformed
\* bitstream.
read_preamble_or_malformed(c, file, r, d) ==
    LET
        \* the four bytes of the preamble
        preamble == <<126, 170, 153, 126>>
        \* the search for the preamble; r holds the position, the CRC and the last
        \* four bytes read (-1: None)
        RECURSIVE find_preamble(_, _)
        find_preamble(file1, r2) ==
            IF r2.last_four = preamble THEN r2
            ELSE IF r2.pos > Len(file1) THEN [r2 EXCEPT !.err = "MalformedBitstreamError"]
            ELSE find_preamble(file1, [r2 EXCEPT !.pos = @ + 1, !.crc = crc_byte(@, file1[r2.pos]),
                                               !.last_four = Tail(@) \o <<file1[r2.pos]>>])
    IN
    IF d.err # "none" THEN ReadResult(d.err, c)
    ELSE read_commands([c EXCEPT !.comment = d.text], file,
                       find_preamble(file, [err |-> "none", pos |-> r.pos, crc |-> r.crc,
                                                  last_four |-> <<-1, -1, -1, -1>>]))

\* after the comment was decoded with outcome d
read_preamble(c, file, r, d) ==
    LET
        \* the four bytes of the preamble
        preamble == <<126, 170, 153, 126>>
        \* the search for the preamble; r holds the position, the CRC and the last
        \* four bytes read (-1: None)
        RECURSIVE find_preamble(_, _)
        find_preamble(file1, r2) ==
            IF r2.last_four = preamble THEN r2
            ELSE IF r2.pos > Len(file1) THEN [r2 EXCEPT !.err = "EOFError"]
            ELSE find_preamble(file1, [r2 EXCEPT !.pos = @ + 1, !.crc = crc_byte(@, file1[r2.pos]),
                                               !.last_four = Tail(@) \o <<file1[r2.pos]>>])
    IN
    IF d.err # "none" THEN ReadResult(d.err, c)
    ELSE read_commands([c EXCEPT !.comment = d.text], file,
                       find_preamble(file, [err |-> "none", pos |-> r.pos, crc |-> r.crc,
                                                  last_four |-> <<-1, -1, -1, -1>>]))

\* after the loop over the comment strings with outcome r
read_comment_done(c, file, r) ==
    LET
        \* data.decode("utf-8"): a byte above 0x7F that is not part of a multi-byte
        \* character raises UnicodeDecodeError
        decode_utf8(data) ==
            IF \E k \in 1..Len(data) : data[k] > 127
            THEN [err |-> "UnicodeDecodeError", text |-> << >>]
            ELSE [err |-> "none", text |-> data]
    IN
    IF r.err # "none" THEN ReadResult(r.err, c)
    ELSE read_preamble(c, file, r, decode_utf8(r.com_list))

\* Mutant: no line break is added for a string without its null.
read_comment_no_line_break(c, file, r) ==
    LET
        \* the loop that reads the null terminated comment strings; r holds the
        \* position, the CRC, the byte read last (cur), the one before (prv) and
        \* com_list
        RECURSIVE comment_loop(_, _)
        comment_loop(file2, r3) ==
            IF r3.pos > Len(file2) THEN [r3 EXCEPT !.err = "EOFError"]
            ELSE IF r3.cur # 0
            THEN comment_loop(file2, [r3 EXCEPT !.pos = @ + 1, !.crc = crc_byte(@, file2[r3.pos]),
                                              !.prv = r3.cur, !.cur = file2[r3.pos],
                                              !.com_list = Append(@, r3.cur)])
            ELSE IF file2[r3.pos] = 255
            THEN [r3 EXCEPT !.pos = @ + 1, !.crc = crc_byte(@, file2[r3.pos]),
                           !.com_list = @]
            ELSE comment_loop(file2, [r3 EXCEPT !.pos = @ + 1, !.crc = crc_byte(@, file2[r3.pos]),
                                              !.prv = r3.cur, !.cur = file2[r3.pos],
                                              !.com_list = Append(@, LF)])
    IN
    IF r.err # "none" THEN ReadResult(r.err, c)
    ELSE read_comment_done(c, file, comment_loop(file, [err |-> "none", pos |-> r.pos, crc |-> r.crc, prv |-> 0,
                                  cur |-> r.data[1], com_list |-> << >>]))

\* after the first byte of the comment was read with outcome r
read_comment(c, file, r) ==
    LET
        \* the loop that reads the null terminated comment strings; r holds the
        \* position, the CRC, the byte read last (cur), the one before (prv) and
        \* com_list
        RECURSIVE comment_loop(_, _)
        comment_loop(file2, r3) ==
            IF r3.pos > Len(file2) THEN [r3 EXCEPT !.err = "EOFError"]
            ELSE IF r3.cur # 0
            THEN comment_loop(file2, [r3 EXCEPT !.pos = @ + 1, !.crc = crc_byte(@, file2[r3.pos]),
                                              !.prv = r3.cur, !.cur = file2[r3.pos],
                                              !.com_list = Append(@, r3.cur)])
            ELSE IF file2[r3.pos] = 255
            THEN [r3 EXCEPT !.pos = @ + 1, !.crc = crc_byte(@, file2[r3.pos]),
                           !.com_list = IF r3.prv = 0 THEN @ ELSE Append(@, LF)]
            ELSE comment_loop(file2, [r3 EXCEPT !.pos = @ + 1, !.crc = crc_byte(@, file2[r3.pos]),
                                              !.prv = r3.cur, !.cur = file2[r3.pos],
                                              !.com_list = Append(@, LF)])
    IN
    IF r.err # "none" THEN ReadResult(r.err, c)
    ELSE read_comment_done(c, file, comment_loop(file, [err |-> "none", pos |-> r.pos, crc |-> r.crc, prv |-> 0,
                                  cur |-> r.data[1], com_list |-> << >>]))

\* after the first two bytes were read with outcome r
read_start(c, file, r) ==
    IF r.err # "none" THEN ReadResult(r.err, c)
    ELSE read_comment(c, file, get_bytes_crc(file, r.pos, 1, r.crc))

\* c.read_bin(bin_file): the exception raised and the Configuration after it
read_bin(c, file) == read_start(c, file, expect_bytes(file, 1, <<255, 0>>, crc_reset_value, ""))

(***************************************************************************)
(* The text codec.  A text file is the sequence of its lines, as readline  *)
(* returns them: every line with its line feed, the last one possibly      *)
(* without.                                                                *)
(***************************************************************************)

\* DeviceSpec.asc_name of the device
asc_name == Str(<<"8", "k">>)

\* TILE_TYPE_TO_ASC_ENTRY
TILE_TYPE_TO_ASC_ENTRY(ttype) ==
    CASE ttype = "LOGIC" -> Str(<<"l", "o", "g", "i", "c", "_", "t", "i", "l", "e">>)
      [] ttype = "IO" -> Str(<<"i", "o", "_", "t", "i", "l", "e">>)
      [] ttype = "RAM_T" -> Str(<<"r", "a", "m", "t", "_", "t", "i", "l", "e">>)
      [] ttype = "RAM_B" -> Str(<<"r", "a", "m", "b", "_", "t", "i", "l", "e">>)

\* the largest element of a set of numbers
Highest(set) == CHOOSE n \in set : \A m \in set : m <= n

\* Mutant: a device entry with any name is taken.
device_entry_any_name(parts, r) ==
    IF Len(parts) < 2 THEN [r EXCEPT !.err = "IndexError"]
    ELSE r

\* read_asc, a device entry: ValueError when parts[1] is not the asc_name of the
\* DeviceSpec
device_entry(parts, r) ==
    IF Len(parts) < 2 THEN [r EXCEPT !.err = "IndexError"]
    ELSE IF parts[2] # asc_name THEN [r EXCEPT !.err = "ValueError"]
    ELSE r

\* c.read_asc(asc_file): the exception raised and the Configuration after it;
\* clear() comes first
read_asc(c, file) ==
    LET
        \* a decimal digit
        IsDigit(ch) == ch \in 48..57
        \* the value of the decimal digits of a text, underscores left out
        RECURSIVE int_value(_, _, _)
        int_value(text, k, value) ==
            IF k > Len(text) THEN value
            ELSE int_value(text, k + 1, IF IsDigit(text[k]) THEN 10 * value + (text[k] - 48) ELSE value)
        \* int(text) of a word: digits, single underscores between them
        int(text) ==
            IF /\ text # << >>
               /\ \A k \in 1..Len(text) :
                     \/ IsDigit(text[k])
                     \/ /\ text[k] = ord("_")
                        /\ k > 1 /\ k < Len(text)
                        /\ IsDigit(text[k - 1]) /\ IsDigit(text[k + 1])
            THEN [err |-> "none", value |-> int_value(text, 1, 0)]
            ELSE [err |-> "ValueError", value |-> 0]
        \* (int(parts[1]), int(parts[2])) of an entry: IndexError without the part,
        \* ValueError when it is no number
        EntryPosition(parts) ==
            IF Len(parts) < 2 THEN [err |-> "IndexError", pos |-> <<0, 0>>]
            ELSE IF int(parts[2]).err # "none" THEN [err |-> "ValueError", pos |-> <<0, 0>>]
            ELSE IF Len(parts) < 3 THEN [err |-> "IndexError", pos |-> <<0, 0>>]
            ELSE IF int(parts[3]).err # "none" THEN [err |-> "ValueError", pos |-> <<0, 0>>]
            ELSE [err |-> "none", pos |-> <<int(parts[2]).value, int(parts[3]).value>>]
        \* the outcome of a step of read_asc with an exception
        AscError(r, err) == [r EXCEPT !.err = err]
        \* an extra_bit entry: ExtraBit(int(parts[1]), int(parts[2]), int(parts[3]))
        \* is appended to _extra_bits
        extra_bit_entry(parts, r) ==
            IF EntryPosition(parts).err # "none" THEN AscError(r, EntryPosition(parts).err)
            ELSE IF Len(parts) < 4 THEN AscError(r, "IndexError")
            ELSE IF int(parts[4]).err # "none" THEN AscError(r, "ValueError")
            ELSE [r EXCEPT !.cfg.extra_bits =
                              Append(@, <<int(parts[2]).value, int(parts[3]).value, int(parts[4]).value>>)]
        \* the keys of ASC_ENTRY_TO_TILE_TYPE
        ASC_ENTRY_TO_TILE_TYPE == {TILE_TYPE_TO_ASC_ENTRY(t) : t \in {"LOGIC", "IO", "RAM_T", "RAM_B"}}
        \* a tile entry or a ram_data entry after its position was read with outcome p:
        \* KeyError without a matrix at the position
        data_entry(r, p, keys, state) ==
            IF p.err # "none" THEN AscError(r, p.err)
            ELSE IF p.pos \notin keys THEN AscError(r, "KeyError")
            ELSE [r EXCEPT !.pos = p.pos, !.row = 0, !.state = state]
        \* a warmboot entry: the handler reads part[1], a name that is not defined
        warmboot_entry(parts, r) == AscError(r, "NameError")
        \* the branches on the entry
        entry(name, parts, r) ==
            CASE name \in ASC_ENTRY_TO_TILE_TYPE ->
                     data_entry(r, EntryPosition(parts), r.cfg.tiles.keys, "TILE_ROW")
              [] name = Str(<<"r", "a", "m", "_", "d", "a", "t", "a">>) ->
                     data_entry(r, EntryPosition(parts), r.cfg.bram.keys, "RAM_ROW")
              [] name = Str(<<"e", "x", "t", "r", "a", "_", "b", "i", "t">>) -> extra_bit_entry(parts, r)
              [] name = Str(<<"c", "o", "m", "m", "e", "n", "t">>) -> [r EXCEPT !.state = "READ_TO_NEXT"]
              [] name = Str(<<"d", "e", "v", "i", "c", "e">>) -> device_entry(parts, r)
              [] name = Str(<<"w", "a", "r", "m", "b", "o", "o", "t">>) -> warmboot_entry(parts, r)
              [] name = Str(<<"s", "y", "m">>) -> r
              [] OTHER -> AscError(r, "ValueError")
        \* str.isspace of a character
        IsSpace(ch) == ch \in {9, 10, 11, 12, 13, 32}
        \* the positions of the characters of the text that are no whitespace
        NonSpaces(text) == {k \in 1..Len(text) : ~IsSpace(text[k])}
        \* text.lstrip()
        str_lstrip(text) ==
            IF NonSpaces(text) = {} THEN << >>
            ELSE SubSeq(text, Lowest(NonSpaces(text)), Len(text))
        \* the length of the first word of a text that starts with one
        WordEnd(text) ==
            IF \A k \in 1..Len(text) : ~IsSpace(text[k]) THEN Len(text)
            ELSE Lowest({k \in 1..Len(text) : IsSpace(text[k])}) - 1
        \* text.split(): the words between runs of whitespace
        RECURSIVE str_split(_)
        str_split(text) ==
            IF NonSpaces(text) = {} THEN << >>
            ELSE <<SubSeq(str_lstrip(text), 1, WordEnd(str_lstrip(text)))>>
                 \o str_split(SubSeq(str_lstrip(text), WordEnd(str_lstrip(text)) + 1, Len(str_lstrip(text))))
        \* state FIND_ENTRY with the stripped line
        find_entry_in(line, r) ==
            IF line = << >> THEN r
            ELSE IF line[1] # ord(".") THEN AscError(r, "ValueError")
            ELSE entry(Tail(str_split(line)[1]), str_split(line), r)
        \* text.strip()
        str_strip(text) ==
            IF NonSpaces(text) = {} THEN << >>
            ELSE SubSeq(text, Lowest(NonSpaces(text)), Highest(NonSpaces(text)))
        \* state FIND_ENTRY: the next state is READ_LINE unless the entry sets another
        find_entry(line, r) == find_entry_in(str_strip(line), [r EXCEPT !.state = "READ_LINE"])
        \* state READ_TO_NEXT: a line that starts with "." ends the comment, any other
        \* line is appended to it
        read_to_next(line, r) ==
            IF str_lstrip(line) # << >> /\ str_lstrip(line)[1] = ord(".") THEN find_entry(line, r)
            ELSE [r EXCEPT !.comment_data = @ \o line]
        \* a data line of a tile entry: current_data[row][col] = (line[col] == "1") for
        \* every column of the row, IndexError at the end of a shorter line
        tile_row(line, r) ==
            [r EXCEPT
                !.err = IF Len(line) < RowLen(r.cfg.tiles, r.pos, r.row) THEN "IndexError" ELSE "none",
                !.cfg.tiles.ones =
                    {c9 \in @ : ~(c9[1] = r.pos /\ c9[2] = r.row
                                 /\ c9[3] < Min(Len(line), RowLen(r.cfg.tiles, r.pos, r.row)))}
                    \cup {<<r.pos, r.row, col>> :
                             col \in {k \in 0..(Min(Len(line), RowLen(r.cfg.tiles, r.pos, r.row)) - 1) :
                                         line[k + 1] = ord("1")}},
                !.row = @ + 1,
                !.state = IF r.row = 15 THEN "READ_LINE" ELSE "TILE_ROW"]
        \* int(ch, 16) of one character; -1 is the ValueError
        hex_value(ch) ==
            CASE ch \in 48..57 -> ch - 48
              [] ch \in 97..102 -> ch - 87
              [] ch \in 65..70 -> ch - 55
              [] OTHER -> -1
        \* the ram_index at which a ram_data line raises ValueError: four times the
        \* number of hexadecimal digits at its end, 256 when all 64 are digits
        FirstBad(line) ==
            IF \A k \in 1..64 : hex_value(line[k]) >= 0 THEN 256
            ELSE 4 * (64 - Highest({k \in 1..64 : hex_value(line[k]) < 0}))
        \* a data line of 64 characters or more of a ram_data entry: four bits for each
        \* of the 64 hexadecimal digits, from the last digit to the first, up to the
        \* first exception; n is the length of the row, 256 at most
        ram_row_bits(line, r, n) ==
            [r EXCEPT
                !.err = IF FirstBad(line) <= n /\ FirstBad(line) < 256 THEN "ValueError"
                        ELSE IF n < 256 THEN "IndexError" ELSE "none",
                !.cfg.bram.ones =
                    {c8 \in @ : ~(c8[1] = r.pos /\ c8[2] = r.row /\ c8[3] < Min(FirstBad(line), n))}
                    \cup {<<r.pos, r.row, ram_index>> :
                             ram_index \in {i \in 0..(Min(FirstBad(line), n) - 1) :
                                 (hex_value(line[64 - (i \div 4)]) \div (2 ^ (i % 4))) % 2 = 1}},
                !.row = @ + 1,
                !.state = IF r.row = 15 THEN "READ_LINE" ELSE "RAM_ROW"]
        \* a data line of a ram_data entry: IndexError for a line of fewer than 64
        \* characters
        ram_row(line, r) ==
            IF Len(line) < 64 THEN AscError(r, "IndexError")
            ELSE ram_row_bits(line, r, Min(256, RowLen(r.cfg.bram, r.pos, r.row)))
        \* read_asc with one line of the file
        asc_line(line, r) ==
            CASE r.state = "TILE_ROW" -> tile_row(str_strip(line), r)
              [] r.state = "RAM_ROW" -> ram_row(str_strip(line), r)
              [] r.state = "READ_TO_NEXT" -> read_to_next(line, r)
              [] OTHER -> find_entry(line, r)
        \* read_asc with the lines first..last of the file, one half after the other;
        \* an exception ends the call
        RECURSIVE asc_lines(_, _, _, _)
        asc_lines(file9, first, last, r) ==
            IF r.err # "none" \/ first > last THEN r
            ELSE IF first = last THEN asc_line(file9[first], r)
            ELSE asc_lines(file9, ((first + last) \div 2) + 1, last,
                           asc_lines(file9, first, (first + last) \div 2, r))
        \* read_asc at the end of the file: EOFError inside the data lines of an entry,
        \* else the comment is set
        asc_end(r) ==
            IF r.err # "none" THEN ReadResult(r.err, r.cfg)
            ELSE IF r.state \in {"TILE_ROW", "RAM_ROW"} THEN ReadResult("EOFError", r.cfg)
            ELSE ReadResult("none", [r.cfg EXCEPT !.comment = r.comment_data])
    IN
    asc_end(asc_lines(file, 1, Len(file),
                      [err |-> "none", state |-> "READ_LINE", cfg |-> BlankConfiguration,
                       comment_data |-> << >>, pos |-> <<0, 0>>, row |-> 0]))

(***************************************************************************)
(* write_asc                                                               *)
(***************************************************************************)

\* the four cells from 4 * i on with the first cell as the highest bit
hex_of_cells_first_highest(st, pos, row, i) ==
    (IF Cell(st, pos, row, 4 * i) THEN 8 ELSE 0) + (IF Cell(st, pos, row, 4 * i + 1) THEN 4 ELSE 0)
    + (IF Cell(st, pos, row, 4 * i + 2) THEN 2 ELSE 0) + (IF Cell(st, pos, row, 4 * i + 3) THEN 1 ELSE 0)

\* the value of the four cells from 4 * i on
hex_of_cells(st, pos, row, i) ==
    (IF Cell(st, pos, row, 4 * i + 3) THEN 8 ELSE 0) + (IF Cell(st, pos, row, 4 * i + 2) THEN 4 ELSE 0)
    + (IF Cell(st, pos, row, 4 * i + 1) THEN 2 ELSE 0) + (IF Cell(st, pos, row, 4 * i) THEN 1 ELSE 0)

\* Mutant: a ram_data entry is written for every block memory.
write_asc_all_blocks(c) ==
    LET
        \* a row of a tile as a line of "0" and "1"
        bit_line(st, pos, row) ==
            [k \in 1..RowLen(st, pos, row) |-> IF Cell(st, pos, row, k - 1) THEN ord("1") ELSE ord("0")]
            \o <<LF>>
        \* str(n) of a natural number
        RECURSIVE str_of(_)
        str_of(n) == IF n < 10 THEN <<48 + n>> ELSE str_of(n \div 10) \o <<48 + (n % 10)>>
        \* the line of an entry with a position
        position_line(name, pos) ==
            <<ord(".")>> \o name \o <<ord(" ")>> \o str_of(pos[1]) \o <<ord(" ")>> \o str_of(pos[2]) \o <<LF>>
        \* line j of the entry of a tile: the entry line, then the 16 rows
        tile_entry_line(c7, pos, j) ==
            IF j = 0 THEN position_line(TILE_TYPE_TO_ASC_ENTRY(TileTypeOf(pos)), pos)
            ELSE bit_line(c7.tiles, pos, j - 1)
        \* the entries of the tiles in positions
        tile_entries(c6, positions) ==
            [k \in 1..((tile_height + 1) * Len(positions)) |->
                tile_entry_line(c6, positions[((k - 1) \div (tile_height + 1)) + 1], (k - 1) % (tile_height + 1))]
        \* f"{val:x}" of a number below 16
        hex_digit(val) == IF val < 10 THEN 48 + val ELSE 87 + val
        \* a row of a block memory as a line of hexadecimal digits, the first four cells
        \* last
        hex_line(st, pos, row) ==
            [k \in 1..(RowLen(st, pos, row) \div 4) |->
                hex_digit(hex_of_cells(st, pos, row, (RowLen(st, pos, row) \div 4) - k))]
            \o <<LF>>
        \* line j of the entry of a block memory
        ram_entry_line(c3, pos, j) ==
            IF j = 0 THEN position_line(Str(<<"r", "a", "m", "_", "d", "a", "t", "a">>), pos) ELSE hex_line(c3.bram, pos, j - 1)
        \* the entries of the block memories in positions
        ram_entries(c2, positions) ==
            [k \in 1..(17 * Len(positions)) |-> ram_entry_line(c2, positions[((k - 1) \div 17) + 1], (k - 1) % 17)]
        \* the lines of a text, each with its line feed
        RECURSIVE SplitLines(_)
        SplitLines(text) ==
            IF text = << >> THEN << >>
            ELSE IF Find(text, LF, 1) = 0 THEN <<text>>
            ELSE <<SubSeq(text, 1, Find(text, LF, 1))>>
                 \o SplitLines(SubSeq(text, Find(text, LF, 1) + 1, Len(text)))
        \* the comment entry: nothing for an empty comment, a line feed is added to a
        \* comment that does not end with one
        comment_entry(text) ==
            IF text = << >> THEN << >>
            ELSE <<Str(<<".", "c", "o", "m", "m", "e", "n", "t", "\n">>)>> \o SplitLines(IF text[Len(text)] # LF THEN text \o <<LF>> ELSE text)
        \* the line of an extra bit
        extra_bit_line(extra) ==
            Str(<<".", "e", "x", "t", "r", "a", "_", "b", "i", "t", " ">>) \o str_of(extra[1]) \o <<ord(" ")>> \o str_of(extra[2])
            \o <<ord(" ")>> \o str_of(extra[3]) \o <<LF>>
        \* sorted(keys) for positions: by x, then by y
        SortedPositions(keys) ==
            SelectSeq([k \in 1..((max_x + 1) * (max_y + 1)) |->
                          <<(k - 1) \div (max_y + 1), (k - 1) % (max_y + 1)>>],
                      LAMBDA pos : pos \in keys)
        \* the block memories that are written: those with a cell that is True
        NonEmptyBlocks(c1) ==
            SelectSeq(SortedPositions(c1.bram.keys), LAMBDA pos : \E cell \in c1.bram.ones : cell[1] = pos)
    IN
    comment_entry(c.comment)
    \o <<Str(<<".", "d", "e", "v", "i", "c", "e", " ">>) \o asc_name \o <<LF>>>>
    \o (IF ~c.warmboot THEN <<Str(<<".", "w", "a", "r", "m", "b", "o", "o", "t", " ", "d", "i", "s", "a", "b", "l", "e", "d", "\n">>)>> ELSE << >>)
    \o tile_entries(c, SortedPositions(c.tiles.keys))
    \o ram_entries(c, SortedPositions(c.bram.keys))
    \o [k \in 1..Len(c.extra_bits) |-> extra_bit_line(c.extra_bits[k])]

\* c.write_asc(asc_file): the lines written
write_asc(c) ==
    LET
        \* a row of a tile as a line of "0" and "1"
        bit_line(st, pos, row) ==
            [k \in 1..RowLen(st, pos, row) |-> IF Cell(st, pos, row, k - 1) THEN ord("1") ELSE ord("0")]
            \o <<LF>>
        \* str(n) of a natural number
        RECURSIVE str_of(_)
        str_of(n) == IF n < 10 THEN <<48 + n>> ELSE str_of(n \div 10) \o <<48 + (n % 10)>>
        \* the line of an entry with a position
        position_line(name, pos) ==
            <<ord(".")>> \o name \o <<ord(" ")>> \o str_of(pos[1]) \o <<ord(" ")>> \o str_of(pos[2]) \o <<LF>>
        \* line j of the entry of a tile: the entry line, then the 16 rows
        tile_entry_line(c7, pos, j) ==
            IF j = 0 THEN position_line(TILE_TYPE_TO_ASC_ENTRY(TileTypeOf(pos)), pos)
            ELSE bit_line(c7.tiles, pos, j - 1)
        \* the entries of the tiles in positions
        tile_entries(c6, positions) ==
            [k \in 1..((tile_height + 1) * Len(positions)) |->
                tile_entry_line(c6, positions[((k - 1) \div (tile_height + 1)) + 1], (k - 1) % (tile_height + 1))]
        \* f"{val:x}" of a number below 16
        hex_digit(val) == IF val < 10 THEN 48 + val ELSE 87 + val
        \* a row of a block memory as a line of hexadecimal digits, the first four cells
        \* last
        hex_line(st, pos, row) ==
            [k \in 1..(RowLen(st, pos, row) \div 4) |->
                hex_digit(hex_of_cells(st, pos, row, (RowLen(st, pos, row) \div 4) - k))]
            \o <<LF>>
        \* line j of the entry of a block memory
        ram_entry_line(c3, pos, j) ==
            IF j = 0 THEN position_line(Str(<<"r", "a", "m", "_", "d", "a", "t", "a">>), pos) ELSE hex_line(c3.bram, pos, j - 1)
        \* the entries of the block memories in positions
        ram_entries(c2, positions) ==
            [k \in 1..(17 * Len(positions)) |-> ram_entry_line(c2, positions[((k - 1) \div 17) + 1], (k - 1) % 17)]
        \* the lines of a text, each with its line feed
        RECURSIVE SplitLines(_)
        SplitLines(text) ==
            IF text = << >> THEN << >>
            ELSE IF Find(text, LF, 1) = 0 THEN <<text>>
            ELSE <<SubSeq(text, 1, Find(text, LF, 1))>>
                 \o SplitLines(SubSeq(text, Find(text, LF, 1) + 1, Len(text)))
        \* the comment entry: nothing for an empty comment, a line feed is added to a
        \* comment that does not end with one
        comment_entry(text) ==
            IF text = << >> THEN << >>
            ELSE <<Str(<<".", "c", "o", "m", "m", "e", "n", "t", "\n">>)>> \o SplitLines(IF text[Len(text)] # LF THEN text \o <<LF>> ELSE text)
        \* the line of an extra bit
        extra_bit_line(extra) ==
            Str(<<".", "e", "x", "t", "r", "a", "_", "b", "i", "t", " ">>) \o str_of(extra[1]) \o <<ord(" ")>> \o str_of(extra[2])
            \o <<ord(" ")>> \o str_of(extra[3]) \o <<LF>>
        \* sorted(keys) for positions: by x, then by y
        SortedPositions(keys) ==
            SelectSeq([k \in 1..((max_x + 1) * (max_y + 1)) |->
                          <<(k - 1) \div (max_y + 1), (k - 1) % (max_y + 1)>>],
                      LAMBDA pos : pos \in keys)
        \* the block memories that are written: those with a cell that is True
        NonEmptyBlocks(c1) ==
            SelectSeq(SortedPositions(c1.bram.keys), LAMBDA pos : \E cell \in c1.bram.ones : cell[1] = pos)
    IN
    comment_entry(c.comment)
    \o <<Str(<<".", "d", "e", "v", "i", "c", "e", " ">>) \o asc_name \o <<LF>>>>
    \o (IF ~c.warmboot THEN <<Str(<<".", "w", "a", "r", "m", "b", "o", "o", "t", " ", "d", "i", "s", "a", "b", "l", "e", "d", "\n">>)>> ELSE << >>)
    \o tile_entries(c, SortedPositions(c.tiles.keys))
    \o ram_entries(c, NonEmptyBlocks(c))
    \o [k \in 1..Len(c.extra_bits) |-> extra_bit_line(c.extra_bits[k])]

(***************************************************************************)
(* Idle values of the variables a specification does not use               *)
(***************************************************************************)

ConfigIdle ==
    /\ tiles = BlankConfiguration.tiles
    /\ bram = BlankConfiguration.bram
    /\ extra_bits = BlankConfiguration.extra_bits
    /\ comment = BlankConfiguration.comment
    /\ freq_range = BlankConfiguration.freq_range
    /\ warmboot = BlankConfiguration.warmboot
    /\ nosleep = BlankConfiguration.nosleep

SliceIdle ==
    /\ org_slice = slice(None, None, None)
    /\ to_slice = << >>
    /\ rev_slice = None
    /\ rev2_slice = None
    /\ slice_pc = "idle"

BvIdle ==
    /\ bv_block = <<0, 0>>
    /\ bv_address = 0
    /\ bv_mode = 0
    /\ bv_values = << >>
    /\ bv_read = << >>
    /\ bv_err = "none"
    /\ bv_pc = "idle"

GenIdle ==
    /\ gen_spec = [max_x |-> 0, max_y |-> 0, bram_cols |-> << >>]
    /\ gen_out = << >>
    /\ gen_pc = "idle"

FmIdle ==
    /\ fm_devices = << >>
    /\ fm_args = [min_nr |-> 1, max_nr |-> 0, serial_numbers |-> << >>]
    /\ fm_avail_dict = << >>
    /\ fm_boards = << >>
    /\ fm_err = "none"
    /\ fm_pc = "idle"

BankIdle ==
    /\ xram = BlankStore("cram_banks", 0..3)
    /\ dut2 = [tiles |-> BlankConfiguration.tiles, bram |-> BlankConfiguration.bram, extra_bits |-> << >>]
    /\ bank_err = "none"
    /\ bank_pc = "idle"

CodecIdle ==
    /\ bin_file = << >>
    /\ bin_org = << >>
    /\ bin_opt = None
    /\ asc_file = << >>
    /\ cfg2 = BlankConfiguration
    /\ codec_err = "none"
    /\ codec_pc = "idle"
    /\ calls = 0

(***************************************************************************)
(* Specification SpecSlice: reverse_slice applied once and twice to every  *)
(* small slice, the result used to index every small list.                 *)
(***************************************************************************)

\* longest list indexed
MaxLen == 3

\* largest |step| of a slice
MaxStep == 2

SliceInit ==
    LET
        \* start and stop as in test_reverse_slice (range(-l, 2*l)), one wider, and None
        SliceBounds == {None} \cup {Some(v) : v \in (-(MaxLen + 1))..(2 * MaxLen)}
        SliceSteps == {None} \cup {Some(v) : v \in ((-MaxStep)..MaxStep) \ {0}}
    IN
    /\ ConfigIdle
    /\ BvIdle
    /\ CodecIdle
    /\ GenIdle
    /\ FmIdle
    /\ BankIdle
    /\ org_slice \in {slice(a, b, c) : a \in SliceBounds, b \in SliceBounds, c \in SliceSteps}
    /\ to_slice \in {[k \in 1..l |-> k - 1] : l \in 0..MaxLen}
    /\ rev_slice = None
    /\ rev2_slice = None
    /\ slice_pc = "input"

ReverseSlice ==
    /\ slice_pc = "input"
    /\ rev_slice' = reverse_slice(org_slice)
    /\ slice_pc' = "reversed"
    /\ UNCHANGED <<genVars, fmVars, codecVars, org_slice, to_slice, rev2_slice, configVars, bvVars, bankVars>>

ReverseSliceAgain ==
    /\ slice_pc = "reversed"
    /\ rev2_slice' = reverse_slice(rev_slice)
    /\ slice_pc' = "twice"
    /\ UNCHANGED <<genVars, fmVars, codecVars, org_slice, to_slice, rev_slice, configVars, bvVars, bankVars>>

SpecSlice == SliceInit /\ [][ReverseSlice \/ ReverseSliceAgain]_vars

\* |step| of the slice handed in is 1 (step None counts as 1)
UnitStep == org_slice.step \in {None, Some(1), Some(-1)}

\* C7 (as amended): for every slice with step 1, -1 or None, indexing a list with
\* reverse_slice(s) yields the reverse of indexing it with s.
C7_ReversedIndexingUnitStep ==
    (slice_pc \in {"reversed", "twice"} /\ UnitStep)
        => GetSlice(to_slice, rev_slice) = Reversed(GetSlice(to_slice, org_slice))

\* C7 witness: a negative, out-of-range start with step 1 selecting two elements
C7_Witness ==
    /\ slice_pc = "reversed"
    /\ org_slice = slice(Some(-4), Some(2), Some(1))
    /\ Len(to_slice) = 3
    /\ GetSlice(to_slice, rev_slice) = <<1, 0>>

\* C7 as stated: for every slice, whatever its step, indexing a list with
\* reverse_slice(s) yields the reverse of indexing it with s.
C7_ReversedIndexingAnyStep ==
    slice_pc \in {"reversed", "twice"}
        => GetSlice(to_slice, rev_slice) = Reversed(GetSlice(to_slice, org_slice))

\* C8: reverse_slice applied twice selects the same indices in the same order as
\* the original slice, on every list.
C8_ReverseSliceInvolution ==
    slice_pc = "twice"
        => SliceIndices(rev2_slice, Len(to_slice)) = SliceIndices(org_slice, Len(to_slice))

\* C8 witness: a slice with step 2 reversed twice, selecting two elements
C8_Witness ==
    /\ slice_pc = "twice"
    /\ org_slice = slice(Some(1), None, Some(2))
    /\ rev_slice = slice(None, Some(0), Some(-2))
    /\ Len(to_slice) = 3
    /\ SliceIndices(rev2_slice, 3) = <<1>>

(***************************************************************************)
(* Specification SpecBram: one value written into a block memory of a      *)
(* Configuration with set_bram_values and read back with get_bram_values,  *)
(* for every mode and every address 0..4095.                               *)
(***************************************************************************)

\* values 0..MaxLowValue and the MaxLowValue+1 largest ones are written
MaxLowValue == 1

BramInit ==
    LET
        \* the block memory written to
        BramBlockUnderTest == CHOOSE pos \in BramPositions : \A other \in BramPositions : pos[1] * 100 + pos[2] >= other[1] * 100 + other[2]
        \* _bram with the 32 bits from the word of the address on all True
        WordsFilled(ram_block, address) ==
            LET a == split_bram_address(address)
            IN  [BlankConfiguration.bram EXCEPT
                    !.ones = {<<ram_block, a.row_index, c>> : c \in (a.col_index * 16)..(a.col_index * 16 + 31)}
                             \cap {<<ram_block, a.row_index, c>> : c \in 0..255}]
        \* the values written in a mode: the smallest, the largest, the top bit alone
        BramTestValues(mode) ==
            LET top == 2 ^ value_length_from_mode(mode)
            IN  ((0..MaxLowValue) \cup ((top - 1 - MaxLowValue)..(top - 1)) \cup {top \div 2}) \cap (0..(top - 1))
        \* BRAMMode values: BRAM_256x16 = 0, BRAM_512x8 = 1, BRAM_1024x4 = 2, BRAM_2048x2 = 3
        BRAMModes == 0..3
    IN
    /\ SliceIdle
    /\ GenIdle
    /\ FmIdle
    /\ BankIdle
    /\ CodecIdle
    /\ tiles = BlankConfiguration.tiles
    /\ extra_bits = BlankConfiguration.extra_bits
    /\ comment = BlankConfiguration.comment
    /\ freq_range = BlankConfiguration.freq_range
    /\ warmboot = BlankConfiguration.warmboot
    /\ nosleep = BlankConfiguration.nosleep
    /\ bv_block = BramBlockUnderTest
    /\ bv_mode \in BRAMModes
    /\ bv_address \in 0..4095
    /\ bv_values \in {<<v>> : v \in BramTestValues(bv_mode)}
    /\ bram \in {BlankConfiguration.bram, WordsFilled(bv_block, bv_address)}
    /\ bv_read = << >>
    /\ bv_err = "none"
    /\ bv_pc = "input"

SetBramValues ==
    /\ bv_pc = "input"
    /\ LET r == set_bram_values(bram, bv_block, bv_values, bv_address, bv_mode)
       IN  /\ bram' = r.st
           /\ bv_err' = r.err
    /\ bv_pc' = "written"
    /\ UNCHANGED <<genVars, fmVars, codecVars, sliceVars, bankVars, tiles, extra_bits, comment, freq_range, warmboot, nosleep,
                   bv_block, bv_address, bv_mode, bv_values, bv_read>>

GetBramValues ==
    /\ bv_pc = "written"
    /\ bv_err = "none"
    /\ LET r == get_bram_values(bram, bv_block, bv_address, Len(bv_values), bv_mode)
       IN  /\ bv_read' = r.values
           /\ bv_err' = r.err
    /\ bv_pc' = "read"
    /\ UNCHANGED <<genVars, fmVars, codecVars, sliceVars, configVars, bankVars, bv_block, bv_address, bv_mode, bv_values>>

SpecBram == BramInit /\ [][SetBramValues \/ GetBramValues]_vars

\* the address is one of the block_size_from_mode(mode) addresses of the mode
ValidBramAddress == bv_address < block_size_from_mode(bv_mode)

\* C6 (as amended): for every mode and every address 0 .. 4096/width - 1 of the
\* mode, set_bram_values succeeds and get_bram_values then returns the value.
C6_BramValueRoundTripValidAddress ==
    ValidBramAddress =>
        /\ bv_pc = "written" => bv_err = "none"
        /\ bv_pc = "read" => (bv_err = "none" /\ bv_read = bv_values)

\* C6 witness: an 8-bit value with one bit clear read back from the last address
\* of the mode where only True bits were held
C6_Witness ==
    /\ bv_pc = "read"
    /\ bv_mode = 1
    /\ bv_address = 511
    /\ bv_values = <<254>>
    /\ bv_read = <<254>>
    /\ Cardinality(bram.ones) = 15

\* C6 as stated: for every mode and every address in 0..4095 the written value
\* is read back.
C6_BramValueRoundTripAnyAddress ==
    /\ bv_pc = "written" => bv_err = "none"
    /\ bv_pc = "read" => (bv_err = "none" /\ bv_read = bv_values)

\* C26: set_bram_values of one value at an address valid for the mode raises no
\* exception and leaves the value get_from_bram_data reads at every other valid
\* address of the block in the mode as it was, and every bit outside the 16
\* bits of the word of the address, the bits of the other blocks among them.
\* The values are compared at every other valid address for the addresses 0,
\* 17, 255, 256, 511 and 2047, and for the other addresses at the addresses of
\* the same word, the neighbours and the first and last address of the mode.
C26_BramValueFrame ==
    [][(bv_pc = "input" /\ bv_pc' = "written" /\ ValidBramAddress /\ Len(bv_values) = 1) =>
           LET size == block_size_from_mode(bv_mode)
               a == split_bram_address(bv_address)
               Word == {<<bv_block, a.row_index, c>> : c \in (a.col_index * 16)..(a.col_index * 16 + 15)}
               Others ==
                   IF bv_address \in {0, 17, 255, 256, 511, 2047} THEN 0..(size - 1)
                   ELSE {other \in 0..(size - 1) : other % 256 = bv_address % 256}
                        \cup ({0, size - 1, bv_address - 16, bv_address - 1, bv_address + 1, bv_address + 16}
                              \cap (0..(size - 1)))
           IN  /\ bv_err' = "none"
               /\ \A other \in Others \ {bv_address} :
                      get_from_bram_data(bram', bv_block, other, bv_mode)
                          = get_from_bram_data(bram, bv_block, other, bv_mode)
               /\ bram'.ones \ Word = bram.ones \ Word
               /\ \A cell \in bram.ones \cup bram'.ones :
                      cell[1] # bv_block => (cell \in bram.ones <=> cell \in bram'.ones)
               /\ bram'.keys = bram.keys
               /\ bram'.resized = bram.resized]_vars

\* the value 0 was written at address 17 of the 512x8 mode into a word with
\* every bit set: the eight bits of address 273 in the same word are still set
C26_Witness ==
    /\ bv_pc = "written"
    /\ bv_err = "none"
    /\ bv_mode = 1
    /\ bv_address = 17
    /\ bv_values = <<0>>
    /\ Cardinality(bram.ones) = 24
    /\ get_from_bram_data(bram, bv_block, 273, 1).value = 255
    /\ get_from_bram_data(bram, bv_block, 17, 1).value = 0

(***************************************************************************)
(* Specification SpecCramBanks: test_access_cram_matching.  The tiles and  *)
(* extra bits of a Configuration are written into four blank CRAM banks    *)
(* and the banks are read into a second, blank Configuration.              *)
(***************************************************************************)

CramBanksInit ==
    LET
        \* every bit of a tile as <<position, group, index>>
        TileBits(pos) ==
            {<<pos, group, index>> : group \in 0..(tile_height - 1),
                                     index \in 0..(tile_type_width(TileTypeOf(pos)) - 1)}
        \* the bits set in the first Configuration, all in one tile: any single bit, or
        \* all bits of the tile
        CramTestOnes(pos) == {{b} : b \in TileBits(pos)} \cup {TileBits(pos)}
        \* the extra bits asserted in the first Configuration: any of the geometry's, in
        \* the order of the geometry, and all of them in the opposite order
        CramTestExtraBits ==
            {SelectSeq(spec_extra_bits, LAMBDA e : e \in chosen) :
                chosen \in SUBSET {spec_extra_bits[k] : k \in 1..Len(spec_extra_bits)}}
            \cup {Reversed(spec_extra_bits)}
        \* the tile bits that go with asserted extra bits: none, or one next to them
        CramTestOnesWithExtra ==
            {{}, {<<<<max_x, max_y - 1>>, 0, 0>>}}
    IN
    /\ SliceIdle
    /\ GenIdle
    /\ FmIdle
    /\ BvIdle
    /\ CodecIdle
    /\ \/ /\ \E pos \in TilePositions : \E ones \in CramTestOnes(pos) :
                  tiles = [BlankConfiguration.tiles EXCEPT !.ones = ones]
             /\ extra_bits = << >>
          \/ /\ \E ones \in CramTestOnesWithExtra :
                  tiles = [BlankConfiguration.tiles EXCEPT !.ones = ones]
             /\ extra_bits \in CramTestExtraBits
    /\ bram = BlankConfiguration.bram
    /\ comment = BlankConfiguration.comment
    /\ freq_range = BlankConfiguration.freq_range
    /\ warmboot = BlankConfiguration.warmboot
    /\ nosleep = BlankConfiguration.nosleep
    /\ xram = BlankStore("cram_banks", 0..3)
    /\ dut2 = [tiles |-> BlankConfiguration.tiles, bram |-> BlankConfiguration.bram, extra_bits |-> << >>]
    /\ bank_err = "none"
    /\ bank_pc = "blank"

\* dut1._write_cram_banks(cram)
WriteCramBanks ==
    /\ bank_pc = "blank"
    /\ \E r \in {access_cram_banks(tiles, xram, extra_bits, FALSE)} :
           /\ tiles' = r.tiles
           /\ extra_bits' = r.extra_bits
           /\ xram' = r.cram
           /\ bank_err' = r.err
    /\ bank_pc' = "written"
    /\ UNCHANGED <<genVars, fmVars, codecVars, sliceVars, bvVars, bram, comment, freq_range, warmboot, nosleep, dut2>>

\* dut2._read_cram_banks(cram)
ReadCramBanks ==
    /\ bank_pc = "written"
    /\ bank_err = "none"
    /\ \E r \in {access_cram_banks(dut2.tiles, xram, dut2.extra_bits, TRUE)} :
           /\ dut2' = [dut2 EXCEPT !.tiles = r.tiles, !.extra_bits = r.extra_bits]
           /\ xram' = r.cram
           /\ bank_err' = r.err
    /\ bank_pc' = "read"
    /\ UNCHANGED <<genVars, fmVars, codecVars, sliceVars, bvVars, configVars>>

SpecCramBanks == CramBanksInit /\ [][WriteCramBanks \/ ReadCramBanks]_vars

\* the elements of a list
Elements(seq) == {seq[k] : k \in 1..Len(seq)}

\* C1: writing the tiles and extra bits of a Configuration into blank CRAM banks
\* and reading the banks into a blank Configuration raises no exception and
\* gives the second Configuration the same tile positions, the same bit at every
\* (position, group, index) and the same extra bits.
C1_CramBankSymmetry ==
    /\ bank_pc \in {"written", "read"} => bank_err = "none"
    /\ bank_pc = "read" =>
          /\ dut2.tiles.keys = tiles.keys
          /\ dut2.tiles.resized = tiles.resized
          /\ dut2.tiles.ones = tiles.ones
          /\ Elements(dut2.extra_bits) = Elements(extra_bits)

\* C1 witness: a bit of a border tile of a right bank and five extra bits have
\* gone through the banks
C1_Witness ==
    /\ bank_pc = "read"
    /\ dut2.tiles.ones = {<<<<max_x, max_y - 1>>, 0, 0>>}
    /\ Len(dut2.extra_bits) = 5
    /\ Cardinality(xram.ones) = 6

(***************************************************************************)
(* Specification SpecBramBanks: test_access_bram_matching.  The block      *)
(* memories of a Configuration are written into four blank BRAM banks and  *)
(* the banks are read into a second, blank Configuration.                  *)
(***************************************************************************)

BramBanksInit ==
    LET
        \* the bits set in the first Configuration, all in one row of a block memory:
        \* any single bit, or all bits of the row
        BramTestOnes(pos, row) ==
            {{<<pos, row, index>>} : index \in 0..255} \cup {{<<pos, row, index>> : index \in 0..255}}
    IN
    /\ SliceIdle
    /\ GenIdle
    /\ FmIdle
    /\ BvIdle
    /\ CodecIdle
    /\ tiles = BlankConfiguration.tiles
    /\ extra_bits = BlankConfiguration.extra_bits
    /\ \E pos \in BramPositions, row \in 0..15 : \E ones \in BramTestOnes(pos, row) :
          bram = [BlankConfiguration.bram EXCEPT !.ones = ones]
    /\ comment = BlankConfiguration.comment
    /\ freq_range = BlankConfiguration.freq_range
    /\ warmboot = BlankConfiguration.warmboot
    /\ nosleep = BlankConfiguration.nosleep
    /\ xram = BlankStore("bram_banks", 0..3)
    /\ dut2 = [tiles |-> BlankConfiguration.tiles, bram |-> BlankConfiguration.bram, extra_bits |-> << >>]
    /\ bank_err = "none"
    /\ bank_pc = "blank"

\* dut1._write_bram_banks(bram)
WriteBramBanks ==
    /\ bank_pc = "blank"
    /\ \E r \in {access_bram_banks(bram, xram, FALSE)} :
           /\ bram' = r.bram
           /\ xram' = r.banks
           /\ bank_err' = r.err
    /\ bank_pc' = "written"
    /\ UNCHANGED <<genVars, fmVars, codecVars, sliceVars, bvVars, tiles, extra_bits, comment, freq_range, warmboot, nosleep, dut2>>

\* dut2._read_bram_banks(bram)
ReadBramBanks ==
    /\ bank_pc = "written"
    /\ bank_err = "none"
    /\ \E r \in {access_bram_banks(dut2.bram, xram, TRUE)} :
           /\ dut2' = [dut2 EXCEPT !.bram = r.bram]
           /\ xram' = r.banks
           /\ bank_err' = r.err
    /\ bank_pc' = "read"
    /\ UNCHANGED <<genVars, fmVars, codecVars, sliceVars, bvVars, configVars>>

SpecBramBanks == BramBanksInit /\ [][WriteBramBanks \/ ReadBramBanks]_vars

\* C2: writing the block memories of a Configuration into blank BRAM banks and
\* reading the banks into a blank Configuration raises no exception, puts every
\* True bit into a bank cell of its own and gives the second Configuration the
\* same block-memory positions with the same 16 x 256 bits.
C2_BramBankSymmetry ==
    /\ bank_pc \in {"written", "read"} =>
          /\ bank_err = "none"
          /\ Cardinality(xram.ones) = Cardinality(bram.ones)
    /\ bank_pc = "read" =>
          /\ dut2.bram.keys = bram.keys
          /\ dut2.bram.resized = bram.resized
          /\ dut2.bram.ones = bram.ones

\* C2 witness: the last bit of the last block memory of a top bank has gone
\* through the last line of bank 3
C2_Witness ==
    /\ bank_pc = "read"
    /\ dut2.bram.ones = {<<<<bram_cols[2], max_y - 2>>, 15, 255>>}
    /\ xram.ones = {<<3, 255, 16>>}

(***************************************************************************)
(* Specification SpecBin: test_write_bin_asc and the tests of the output   *)
(* options.  A Configuration is written with write_bin and the bytes are   *)
(* read with read_bin into a blank Configuration.                          *)
(***************************************************************************)

\* the Configuration under test
self ==
    [tiles |-> tiles, bram |-> bram, extra_bits |-> extra_bits, comment |-> comment,
     freq_range |-> freq_range, warmboot |-> warmboot, nosleep |-> nosleep]

\* BinOpt(skip_comment, detect_used_bram, bram_banks, optimize) of the tests
BinOpt(skip_comment, detect_used_bram, bram_banks, optimize) ==
    Some([skip_comment |-> skip_comment, detect_used_bram |-> detect_used_bram,
          bram_banks |-> bram_banks, optimize |-> optimize])

BinInit ==
    LET
        \* the comments of the Configuration under test
        BinTestComments ==
            {<< >>, Str(<<"a">>), Str(<<"a", "\n">>), Str(<<"a", "b", "\n", "c">>)}
        \* the options of test_skip_comment, test_optimize and the tests of the BRAM
        \* banks; bram_banks None is no restriction
        BinTestOptions ==
            {None}
            \cup {BinOpt(sc, FALSE, None, 0) : sc \in BOOLEAN}
            \cup {BinOpt(FALSE, d, bb, 0) : d \in BOOLEAN, bb \in {None, Some({}), Some({0, 3})}}
            \cup {BinOpt(FALSE, TRUE, None, o) : o \in 0..4}
        \* the tile bits set in the Configuration under test
        BinTestTileOnes == {{}, {<<<<1, 1>>, 0, 0>>}, {<<<<max_x, max_y - 1>>, 15, 17>>}}
        \* the block-memory bits set in the Configuration under test
        BinTestBramOnes == {{}, {<<<<bram_cols[1], 1>>, 0, 0>>}}
    IN
    /\ SliceIdle
    /\ GenIdle
    /\ FmIdle
    /\ BvIdle
    /\ BankIdle
    /\ \E ones \in BinTestTileOnes : tiles = [BlankConfiguration.tiles EXCEPT !.ones = ones]
    /\ \E ones \in BinTestBramOnes : bram = [BlankConfiguration.bram EXCEPT !.ones = ones]
    /\ extra_bits \in {<< >>, <<spec_extra_bits[1]>>}
    /\ comment \in BinTestComments
    /\ freq_range \in 0..2
    /\ warmboot \in BOOLEAN
    /\ nosleep \in BOOLEAN
    /\ bin_opt \in BinTestOptions
    /\ bin_file = << >>
    /\ bin_org = << >>
    /\ asc_file = << >>
    /\ cfg2 = BlankConfiguration
    /\ codec_err = "none"
    /\ codec_pc = "blank"
    /\ calls = 0

\* dut.write_bin(out_file) or dut.write_bin(out_file, bin_opt)
WriteBin ==
    /\ codec_pc = "blank"
    /\ \E r \in {write_bin(self, bin_opt)} :
           /\ bin_file' = r.file
           /\ bin_org' = r.file
           /\ codec_err' = r.err
    /\ codec_pc' = "written"
    /\ UNCHANGED <<genVars, fmVars, sliceVars, configVars, bvVars, bankVars, bin_opt, asc_file, cfg2, calls>>

\* res.read_bin(out_file) on the blank Configuration res
ReadBin ==
    /\ codec_pc = "written"
    /\ codec_err = "none"
    /\ \E r \in {read_bin(cfg2, bin_file)} :
           /\ cfg2' = r.cfg
           /\ codec_err' = r.err
    /\ codec_pc' = "read"
    /\ UNCHANGED <<genVars, fmVars, sliceVars, configVars, bvVars, bankVars, bin_opt, bin_file, bin_org, asc_file, calls>>

SpecBin == BinInit /\ [][WriteBin \/ ReadBin]_vars

\* C3: reading with read_bin the bytes write_bin wrote for a Configuration with
\* the default options, into a blank Configuration, raises no exception and
\* yields a Configuration equal to the written one in tiles, block memories,
\* extra bits, comment, frequency range, warmboot and nosleep.
C3_BinaryRoundTrip ==
    bin_opt = None =>
        /\ codec_pc \in {"written", "read"} => codec_err = "none"
        /\ codec_pc = "read" =>
              /\ cfg2.tiles = tiles
              /\ cfg2.bram = bram
              /\ Elements(cfg2.extra_bits) = Elements(extra_bits)
              /\ cfg2.comment = comment
              /\ cfg2.freq_range = freq_range
              /\ cfg2.warmboot = warmboot
              /\ cfg2.nosleep = nosleep

\* the BRAM bank that holds the block memory at a position:
\* tile_x = bram_cols[bank_nr // 2], the banks with bank_nr % 2 = 1 hold the
\* blocks above max_y // 2
BramBankOf(pos) ==
    2 * ((CHOOSE k \in 1..Len(bram_cols) : bram_cols[k] = pos[1]) - 1)
    + (IF pos[2] > max_y \div 2 THEN 1 ELSE 0)

\* C9: write_bin takes every option of the tests (comment skipped, BRAM banks
\* restricted or left out, unused BRAM banks detected, optimize 0..4), and
\* read_bin of the bytes written yields the Configuration written, but for the
\* comment when it is skipped and the block memories of BRAM banks left out.
C9_OutputShaping ==
    bin_opt # None =>
        /\ codec_pc \in {"written", "read"} => codec_err = "none"
        /\ codec_pc = "read" =>
              /\ cfg2.tiles = tiles
              /\ Elements(cfg2.extra_bits) = Elements(extra_bits)
              /\ cfg2.freq_range = freq_range
              /\ cfg2.warmboot = warmboot
              /\ cfg2.nosleep = nosleep
              /\ Val(bin_opt).skip_comment \/ cfg2.comment = comment
              /\ \A c \in bram.ones \cup cfg2.bram.ones :
                     (IsNone(Val(bin_opt).bram_banks) \/ BramBankOf(c[1]) \in Val(Val(bin_opt).bram_banks))
                         => (c \in bram.ones <=> c \in cfg2.bram.ones)

\* C21: the comment read by read_bin from the bytes write_bin wrote with the
\* default options, which begin with the block of BinOut.write_comment (FF 00,
\* each line followed by 00, then 00 FF), is the comment written, for the empty
\* comment, a comment without a line feed at the end and one of several lines.
C21_CommentRoundTrip ==
    (bin_opt = None /\ codec_pc = "read") =>
        /\ SubSeq(bin_file, 1, Len(write_comment(comment))) = write_comment(comment)
        /\ codec_err = "none"
        /\ cfg2.comment = comment

(***************************************************************************)
(* Specification SpecAsc: test_write_asc.  A valid text file is read with  *)
(* read_asc, the Configuration is written with write_asc and the text      *)
(* written is read into a second Configuration.                            *)
(***************************************************************************)

\* a data line of a tile entry with "1" in the given columns
AscBitLine(width, columns) ==
    [k \in 1..width |-> IF (k - 1) \in columns THEN ord("1") ELSE ord("0")] \o <<LF>>

\* a tile entry of the file under test: the entry line and 16 data lines, with
\* "1" at the cells in ones
AscTileEntry(line, width, ones) ==
    <<line>> \o [row \in 1..16 |-> AscBitLine(width, {c[2] : c \in {d \in ones : d[1] = row - 1}})]

\* a ram_data entry of the file under test: data lines of 64 times the digit
\* "0", the line of the row given starting with the digits given
AscRamEntry(line, row, digits) ==
    <<line>> \o [k \in 1..16 |->
                    (IF k - 1 = row THEN digits ELSE << >>)
                    \o [j \in 1..(64 - (IF k - 1 = row THEN Len(digits) ELSE 0)) |-> ord("0")]
                    \o <<LF>>]

\* the tile entries of the file under test
AscTestTiles ==
    {<< >>,
     AscTileEntry(Str(<<".", "l", "o", "g", "i", "c", "_", "t", "i", "l", "e", " ", "2", " ", "3", "\n">>), 54, {<<3, 10>>, <<15, 53>>}),
     AscTileEntry(Str(<<".", "i", "o", "_", "t", "i", "l", "e", " ", "0", " ", "1", "\n">>), 18, {<<0, 0>>})
     \o AscTileEntry(Str(<<".", "r", "a", "m", "t", "_", "t", "i", "l", "e", " ", "1", " ", "2", "\n">>), 42, {<<7, 41>>})}

\* the ram_data entries of the file under test
AscTestRams ==
    {<< >>,
     AscRamEntry(Str(<<".", "r", "a", "m", "_", "d", "a", "t", "a", " ", "1", " ", "1", "\n">>), 0, << >>),
     AscRamEntry(Str(<<".", "r", "a", "m", "_", "d", "a", "t", "a", " ", "4", " ", "7", "\n">>), 15, Str(<<"8", "f", "0", "a">>))}

AscInit ==
    LET
        \* the last lines of the file under test: extra bits, symbols, a comment
        AscTestEnds ==
            {<< >>,
             <<Str(<<".", "e", "x", "t", "r", "a", "_", "b", "i", "t", " ", "0", " ", "1", "1", "8", " ", "7", "8", "\n">>)>>,
             <<Str(<<".", "e", "x", "t", "r", "a", "_", "b", "i", "t", " ", "1", " ", "1", "1", "9", " ", "7", "9", "\n">>), Str(<<".", "s", "y", "m", " ", "3", " ", "a", "b", "c", "\n">>), Str(<<".", "e", "x", "t", "r", "a", "_", "b", "i", "t", " ", "0", " ", "1", "1", "8", " ", "7", "8", "\n">>), Str(<<".", "c", "o", "m", "m", "e", "n", "t", "\n">>), Str(<<"l", "a", "s", "t">>)>>}
        \* the comment entries the file under test starts with
        AscTestComments == {<< >>, <<Str(<<".", "c", "o", "m", "m", "e", "n", "t", "\n">>), Str(<<"a", " ", "b", "\n">>), Str(<<"\n">>), Str(<<"c", "\n">>)>>}
        \* the device entries of the file under test
        AscTestDevices == {<<Str(<<".", "d", "e", "v", "i", "c", "e", " ", "8", "k", "\n">>)>>, <<Str(<<" ", " ", ".", "d", "e", "v", "i", "c", "e", " ", " ", " ", "8", "k", " ", "\n">>), Str(<<"\n">>)>>}
        \* the warmboot entries of the file under test
        AscTestWarmboots == {<< >>, <<Str(<<".", "w", "a", "r", "m", "b", "o", "o", "t", " ", "d", "i", "s", "a", "b", "l", "e", "d", "\n">>)>>, <<Str(<<".", "w", "a", "r", "m", "b", "o", "o", "t", " ", "e", "n", "a", "b", "l", "e", "d", "\n">>)>>}
    IN
    /\ SliceIdle
    /\ GenIdle
    /\ FmIdle
    /\ BvIdle
    /\ BankIdle
    /\ ConfigIdle
    /\ \E c \in AscTestComments, d \in AscTestDevices, w \in AscTestWarmboots,
          t \in AscTestTiles, m \in AscTestRams, e \in AscTestEnds :
           asc_file = c \o d \o w \o t \o m \o e
    /\ bin_file = << >>
    /\ bin_org = << >>
    /\ bin_opt = None
    /\ cfg2 = BlankConfiguration
    /\ codec_err = "none"
    /\ codec_pc = "file"
    /\ calls = 0

\* config.read_asc(asc_file)
ReadAsc ==
    /\ codec_pc = "file"
    /\ \E r \in {read_asc(self, asc_file)} :
           /\ tiles' = r.cfg.tiles
           /\ bram' = r.cfg.bram
           /\ extra_bits' = r.cfg.extra_bits
           /\ comment' = r.cfg.comment
           /\ freq_range' = r.cfg.freq_range
           /\ warmboot' = r.cfg.warmboot
           /\ nosleep' = r.cfg.nosleep
           /\ codec_err' = r.err
    /\ codec_pc' = "read"
    /\ UNCHANGED <<genVars, fmVars, sliceVars, bvVars, bankVars, bin_file, bin_org, bin_opt, asc_file, cfg2, calls>>

\* config.write_asc(res)
WriteAsc ==
    /\ codec_pc = "read"
    /\ codec_err = "none"
    /\ asc_file' = write_asc(self)
    /\ codec_pc' = "written"
    /\ UNCHANGED <<genVars, fmVars, sliceVars, configVars, bvVars, bankVars, bin_file, bin_org, bin_opt, cfg2, codec_err, calls>>

\* read_asc of the text written, into the second Configuration
ReadAscAgain ==
    /\ codec_pc = "written"
    /\ \E r \in {read_asc(cfg2, asc_file)} :
           /\ cfg2' = r.cfg
           /\ codec_err' = r.err
    /\ codec_pc' = "reread"
    /\ UNCHANGED <<genVars, fmVars, sliceVars, configVars, bvVars, bankVars, bin_file, bin_org, bin_opt, asc_file, calls>>

SpecAsc == AscInit /\ [][ReadAsc \/ WriteAsc \/ ReadAscAgain]_vars

\* C4: when a Configuration was obtained by read_asc from a valid text file,
\* write_asc of it followed by read_asc of the text written succeeds and yields
\* a Configuration with the same tiles, the same block memories (blocks not
\* written are read back all False), the same extra bits and the same warmboot
\* flag.
C4_TextRoundTrip ==
    codec_pc = "reread" =>
        /\ codec_err = "none"
        /\ cfg2.tiles = tiles
        /\ cfg2.bram = bram
        /\ cfg2.extra_bits = extra_bits
        /\ cfg2.warmboot = warmboot

\* a round trip of a Configuration with tile bits, a block memory with content
\* and extra bits, the text written holding only the non-empty block
C4_Witness ==
    /\ codec_pc = "reread"
    /\ tiles.ones # {}
    /\ bram.ones # {}
    /\ Len(extra_bits) = 2
    /\ cfg2.bram.ones = bram.ones
    /\ {k \in 1..Len(asc_file) : Len(asc_file[k]) > 4 /\ SubSeq(asc_file[k], 1, 5) = Str(<<".", "r", "a", "m", "_">>)}
          = {k \in 1..Len(asc_file) : asc_file[k] = Str(<<".", "r", "a", "m", "_", "d", "a", "t", "a", " ", "4", " ", "7", "\n">>)}

\* C27: read_asc of a valid text file raises no exception; the warmboot flag is
\* False after a line ".warmboot disabled", True after a line ".warmboot
\* enabled" and True for a file without such a line, and the entries after the
\* line are read as in the file without it.
C27_WarmbootDirective ==
    codec_pc = "read" =>
        LET disabled == Str(<<".", "w", "a", "r", "m", "b", "o", "o", "t", " ", "d", "i", "s", "a", "b", "l", "e", "d", "\n">>)
            enabled == Str(<<".", "w", "a", "r", "m", "b", "o", "o", "t", " ", "e", "n", "a", "b", "l", "e", "d", "\n">>)
            IsOther(line) == line \notin {disabled, enabled}
        IN  /\ codec_err = "none"
            /\ warmboot = (\A k \in 1..Len(asc_file) : asc_file[k] # disabled)
            /\ [self EXCEPT !.warmboot = TRUE] = read_asc(BlankConfiguration, SelectSeq(asc_file, IsOther)).cfg

(***************************************************************************)
(* Specification SpecCrc: a complete stream with bank data, CRC check and  *)
(* wakeup is written for a Configuration, one byte of the bank data is     *)
(* changed and the stream is read with read_bin.  write_bin as given ends  *)
(* after the warmboot command; the part after it is the write path of the  *)
(* format description, written with the commands of BinOut: for each bank  *)
(* number, width, height and offset, the load command with the data and    *)
(* two 0x00, after the banks the CRC check with the running CRC, the       *)
(* wakeup and one 0x00.  Banks without a True cell are left out and a bank *)
(* is sent from its first to its last row with a True cell.                *)
(***************************************************************************)

\* BinOut.data_from_xram with _bank_number, _bank_width, _bank_height and
\* _bank_offset as given
data_from_xram(banks, number, width, height, offset) ==
    LET
        \* the value of the cell of a byte of BinOut.data_from_xram: cells from stop
        \* on are filled with 0
        bit_val(banks3, number3, row, col, stop) ==
            IF col < stop /\ Cell(banks3, number3, row, col) THEN 1 ELSE 0
        \* BinOut.data_from_xram, a byte: val |= bit_val << pos for the eight cells
        \* from first on
        data_byte(banks2, number2, row, first, stop) ==
            bit_val(banks2, number2, row, first, stop) + 2 * bit_val(banks2, number2, row, first + 1, stop)
            + 4 * bit_val(banks2, number2, row, first + 2, stop) + 8 * bit_val(banks2, number2, row, first + 3, stop)
            + 16 * bit_val(banks2, number2, row, first + 4, stop) + 32 * bit_val(banks2, number2, row, first + 5, stop)
            + 64 * bit_val(banks2, number2, row, first + 6, stop) + 128 * bit_val(banks2, number2, row, first + 7, stop)
        \* BinOut.data_from_xram, a row: the cells [0:stop] in groups of eight
        data_row(banks1, number1, row, stop) ==
            [b \in 1..((stop + 7) \div 8) |-> data_byte(banks1, number1, row, 8 * (b - 1), stop)]
    IN
    Join([y \in 1..height |->
             data_row(banks, number, y - 1 + offset, Min(width, RowLen(banks, number, y - 1 + offset)))])

\* the stream up to the CRC reset
stream_head(c) ==
    write_comment(c.comment) \o write_preamble \o write_freq_range(c.freq_range) \o crc_reset

\* the complete stream of a Configuration and the positions of its data bytes
write_bin_stream(c) ==
    LET
        \* the commands of a bank sent from row first to row last: set_bank_width gets
        \* the width less one, as read_bin takes the width as the payload plus one
        bank_commands(banks, number, width, command, first, last) ==
            set_bank_number(number) \o set_bank_width(width - 1) \o set_bank_height(last - first + 1)
            \o set_bank_offset(first) \o <<1, command>>
            \o data_from_xram(banks, number, width - 1, last - first + 1, first) \o <<0, 0>>
        \* the rows of a bank with a True cell
        UsedRows(banks, number) == {c5[2] : c5 \in {d \in banks.ones : d[1] = number}}
        \* the commands of a bank, none for a bank without a True cell
        bank_chunk(banks, number, width, command) ==
            IF UsedRows(banks, number) = {} THEN << >>
            ELSE bank_commands(banks, number, width, command,
                               Lowest(UsedRows(banks, number)), Highest(UsedRows(banks, number)))
        \* the stream r with the commands of a bank added; payload holds the positions
        \* of the data bytes: 13 bytes of commands before them, two 0x00 after them
        add_bank(r, chunk) ==
            [r EXCEPT !.file = @ \o chunk,
                      !.payload = @ \cup (IF chunk = << >> THEN {}
                                          ELSE (Len(r.file) + 14)..(Len(r.file) + Len(chunk) - 2))]
        \* the stream r with the commands of the banks from number on
        RECURSIVE add_banks(_, _, _, _, _)
        add_banks(r, banks, width, command, number) ==
            IF number \notin banks.keys THEN r
            ELSE add_banks(add_bank(r, bank_chunk(banks, number, width, command)), banks, width, command, number + 1)
        \* the CRC check: 0x22 and the running CRC of the bytes since the CRC reset
        add_crc_check(r) ==
            [r EXCEPT !.file = @ \o <<34>>
                          \o to_bytes2(crc_hqx(SubSeq(@, r.checked + 1, Len(@)) \o <<34>>, crc_reset_value))]
        \* the wakeup command and the byte after it
        add_wakeup(r) == [r EXCEPT !.file = @ \o <<1, 6>> \o <<0>>]
        \* the complete stream of a Configuration with the given banks
        stream_of_banks(c4, cram_banks, bram_banks) ==
            add_wakeup(add_crc_check(add_banks(add_banks(
                [file |-> stream_head(c4) \o write_warmboot(c4.warmboot, c4.nosleep),
                 payload |-> {}, checked |-> Len(stream_head(c4))],
                cram_banks, cram_width, 1, 0), bram_banks, bram_width, 3, 0)))
    IN
    stream_of_banks(c,
        access_cram_banks(c.tiles, BlankStore("cram_banks", 0..3), c.extra_bits, FALSE).cram,
        access_bram_banks(c.bram, BlankStore("bram_banks", 0..3), FALSE).banks)

CrcInit ==
    LET
        \* the tile and block-memory bits set in the Configuration under test: a row
        \* of CRAM bank 0 and a row of BRAM bank 0, or a row of BRAM bank 3
        CrcTestOnes ==
            {[tiles |-> {<<<<1, 1>>, 0, 0>>},
              bram  |-> {<<<<bram_cols[1], 1>>, 0, 0>>, <<<<bram_cols[1], 1>>, 0, 17>>}],
             [tiles |-> {}, bram |-> {<<<<bram_cols[2], 7>>, 0, 3>>}]}
    IN
    /\ SliceIdle
    /\ GenIdle
    /\ FmIdle
    /\ BvIdle
    /\ BankIdle
    /\ \E ones \in CrcTestOnes :
           /\ tiles = [BlankConfiguration.tiles EXCEPT !.ones = ones.tiles]
           /\ bram = [BlankConfiguration.bram EXCEPT !.ones = ones.bram]
    /\ extra_bits = << >>
    /\ comment = << >>
    /\ freq_range = 0
    /\ warmboot = TRUE
    /\ nosleep = FALSE
    /\ bin_opt = None
    /\ bin_file = << >>
    /\ bin_org = << >>
    /\ asc_file = << >>
    /\ cfg2 = BlankConfiguration
    /\ codec_err = "none"
    /\ codec_pc = "blank"
    /\ calls = 0

\* the complete stream is written
WriteStream ==
    /\ codec_pc = "blank"
    /\ bin_file' = write_bin_stream(self).file
    /\ bin_org' = bin_file'
    /\ codec_pc' = "written"
    /\ UNCHANGED <<genVars, fmVars, sliceVars, configVars, bvVars, bankVars, bin_opt, asc_file, cfg2, codec_err, calls>>

\* one byte of the bank data of the stream written gets another value
Corrupt ==
    /\ codec_pc = "written"
    /\ bin_file = bin_org
    /\ \E p \in write_bin_stream(self).payload, value \in 0..255 :
           /\ value # bin_file[p]
           /\ bin_file' = [bin_file EXCEPT ![p] = value]
    /\ UNCHANGED <<genVars, fmVars, sliceVars, configVars, bvVars, bankVars, bin_opt, bin_org, asc_file, cfg2, codec_err, codec_pc, calls>>

SpecCrc == CrcInit /\ [][WriteStream \/ Corrupt \/ ReadBin]_vars

\* C5: read_bin of a complete stream in which one byte of the bank data was
\* changed, the CRC behind the data left as written, raises
\* MalformedBitstreamError.
C5_CrcEnforcement ==
    (codec_pc = "read" /\ bin_file # bin_org) => codec_err = "MalformedBitstreamError"

\* a stream with a changed byte in the data of a bank was read and refused,
\* the stream as written is read without an exception
C5_Witness ==
    /\ codec_pc = "read"
    /\ bin_file # bin_org
    /\ codec_err = "MalformedBitstreamError"
    /\ read_bin(BlankConfiguration, bin_org).err = "none"

\* C22: the bytes of BinOut.data_from_xram for the rows in use of a bank hold
\* the cells of a row eight to a byte, the first cell in the most significant
\* bit, and data_to_xram of read_bin with the same bank number, width, height
\* and offset puts every cell of these rows back at its bank coordinate.
C22_BankPayloadPacking ==
    (codec_pc = "read" /\ bin_file = bin_org) =>
        LET cram_banks == access_cram_banks(tiles, BlankStore("cram_banks", 0..3), extra_bits, FALSE).cram
            bram_banks == access_bram_banks(bram, BlankStore("bram_banks", 0..3), FALSE).banks
            Rows(banks, number) == {c[2] : c \in {d \in banks.ones : d[1] = number}}
            Packed(banks, number, width) ==
                LET first == Lowest(Rows(banks, number))
                    height == Highest(Rows(banks, number)) - first + 1
                    data == data_from_xram(banks, number, width, height, first)
                    loaded == data_to_xram(data, BlankStore(banks.shape, 0..3),
                                           [bank_nr |-> Some(number), bank_width |-> Some(width),
                                            bank_height |-> Some(height), bank_offset |-> Some(first)], 0)
                IN /\ Len(data) = height * (width \div 8)
                   /\ \A y \in 0..(height - 1), col \in 0..(width - 1) :
                          Cell(banks, number, first + y, col)
                              <=> (data[y * (width \div 8) + (col \div 8) + 1] \div (2 ^ (7 - (col % 8)))) % 2 = 1
                   /\ loaded.err = "none"
                   /\ \A y \in 0..(height - 1), col \in 0..(width - 1) :
                          Cell(loaded.st, number, first + y, col) <=> Cell(banks, number, first + y, col)
        IN /\ \A number \in 0..3 : Rows(cram_banks, number) # {} => Packed(cram_banks, number, cram_width)
           /\ \A number \in 0..3 : Rows(bram_banks, number) # {} => Packed(bram_banks, number, bram_width)

(***************************************************************************)
(* Specification SpecConfiguration: a Configuration after sequences of     *)
(* clear, set_bit, set_bits, set_bram_values, read_asc and read_bin.  The  *)
(* sequence ends with the first call that raises an exception.             *)
(***************************************************************************)

\* the number of calls of a sequence
MaxCalls == 2

\* Mutant: the rows of a tile are one list, the bit is set in every row.
set_bit_rows_aliased(tls, x, y, group, index, value) ==
    LET
        PyIndex(index2, length) ==
            IF index2 >= 0 /\ index2 < length THEN Some(index2)
            ELSE IF index2 < 0 /\ index2 >= -length THEN Some(index2 + length)
            ELSE None
        \* the cell set in the rows from row on
        RECURSIVE set_bit_in_rows(_, _, _, _, _)
        set_bit_in_rows(tls1, pos, row, col, value4) ==
            IF row >= DefaultHeight(tls1.shape) THEN tls1
            ELSE set_bit_in_rows(SetCell(tls1, pos, row, col, value4), pos, row + 1, col, value4)
    IN
    IF <<x, y>> \notin tls.keys THEN [err |-> "KeyError", st |-> tls]
    ELSE IF IsNone(PyIndex(group, DefaultHeight(tls.shape))) THEN [err |-> "IndexError", st |-> tls]
    ELSE IF IsNone(PyIndex(index, RowLen(tls, <<x, y>>, 0))) THEN [err |-> "IndexError", st |-> tls]
    ELSE [err |-> "none", st |-> set_bit_in_rows(tls, <<x, y>>, 0, Val(PyIndex(index, RowLen(tls, <<x, y>>, 0))), value)]

\* set_bit(x, y, group, index, value): KeyError without a tile at (x, y),
\* IndexError for a group or index out of range
set_bit(tls, x, y, group, index, value) ==
    LET
        \* tuple[index] and list[index] of Python: the position for an index of
        \* -length .. length - 1, None otherwise (IndexError)
        PyIndex(index2, length) ==
            IF index2 >= 0 /\ index2 < length THEN Some(index2)
            ELSE IF index2 < 0 /\ index2 >= -length THEN Some(index2 + length)
            ELSE None
        \* self._tiles[pos][group][index] = value with the group found
        set_bit_in_row(tls1, pos, row, index1, value4) ==
            IF IsNone(PyIndex(index1, RowLen(tls1, pos, row)))
            THEN [err |-> "IndexError", st |-> tls1]
            ELSE [err |-> "none", st |-> SetCell(tls1, pos, row, Val(PyIndex(index1, RowLen(tls1, pos, row))), value4)]
    IN
    IF <<x, y>> \notin tls.keys THEN [err |-> "KeyError", st |-> tls]
    ELSE IF IsNone(PyIndex(group, DefaultHeight(tls.shape))) THEN [err |-> "IndexError", st |-> tls]
    ELSE set_bit_in_row(tls, <<x, y>>, Val(PyIndex(group, DefaultHeight(tls.shape))), index, value)

\* set_bits(tile, bits, values), a bit being <<group, index>>
set_bits(tls, tile, bits, values) ==
    LET
        \* the loop of set_bits from bit i on, r the outcome so far: values[i] raises
        \* IndexError when there are fewer values than bits
        RECURSIVE set_bits_loop(_, _, _, _, _)
        set_bits_loop(r, tile1, bits1, values1, i) ==
            IF r.err # "none" \/ i > Len(bits1) THEN r
            ELSE IF i > Len(values1) THEN [r EXCEPT !.err = "IndexError"]
            ELSE set_bits_loop(set_bit(r.st, tile1[1], tile1[2], bits1[i][1], bits1[i][2], values1[i]),
                               tile1, bits1, values1, i + 1)
    IN
    IF tile \notin tls.keys THEN [err |-> "KeyError", st |-> tls]
    ELSE set_bits_loop([err |-> "none", st |-> tls], tile, bits, values, 1)

ConfigurationInit ==
    /\ SliceIdle
    /\ GenIdle
    /\ FmIdle
    /\ BvIdle
    /\ BankIdle
    /\ ConfigIdle
    /\ bin_file = << >>
    /\ bin_org = << >>
    /\ bin_opt = None
    /\ asc_file = << >>
    /\ cfg2 = BlankConfiguration
    /\ codec_err = "none"
    /\ codec_pc = "calls"
    /\ calls = 0

\* a further call is made; asc_file and bin_file hold the file the call reads
NextCall(asc, bin) ==
    /\ codec_pc = "calls"
    /\ codec_err = "none"
    /\ calls < MaxCalls
    /\ calls' = calls + 1
    /\ asc_file' = asc
    /\ bin_file' = bin
    /\ UNCHANGED <<genVars, fmVars, sliceVars, bvVars, bankVars, bin_org, bin_opt, cfg2, codec_pc>>

\* config.clear()
CallClear ==
    /\ NextCall(<< >>, << >>)
    /\ tiles' = BlankConfiguration.tiles
    /\ bram' = BlankConfiguration.bram
    /\ extra_bits' = BlankConfiguration.extra_bits
    /\ comment' = BlankConfiguration.comment
    /\ freq_range' = BlankConfiguration.freq_range
    /\ warmboot' = BlankConfiguration.warmboot
    /\ nosleep' = BlankConfiguration.nosleep
    /\ codec_err' = "none"

\* config.set_bit(x, y, group, index, value)
CallSetBit ==
    /\ NextCall(<< >>, << >>)
    /\ \E x \in {0, 1}, y \in {0, 1}, group \in {0, 15, 16}, index \in {-1, 0, 17, 18}, value \in BOOLEAN :
           \E r \in {set_bit(tiles, x, y, group, index, value)} :
               /\ tiles' = r.st
               /\ codec_err' = r.err
    /\ UNCHANGED <<bram, extra_bits, comment, freq_range, warmboot, nosleep>>

\* config.set_bits(tile, bits, values)
CallSetBits ==
    LET
        \* the bits and values set_bits is called with
        ShapeTestBits == {<<<<0, 0>>, <<15, 53>>>>, <<<<-1, -54>>>>, <<<<0, 54>>>>, <<<<16, 0>>>>}
        ShapeTestValues == {<<TRUE, FALSE>>, <<TRUE>>, <<FALSE, TRUE>>}
    IN
    /\ NextCall(<< >>, << >>)
    /\ \E tile \in {<<2, 3>>, <<0, 0>>}, bits \in ShapeTestBits, values \in ShapeTestValues :
           \E r \in {set_bits(tiles, tile, bits, values)} :
               /\ tiles' = r.st
               /\ codec_err' = r.err
    /\ UNCHANGED <<bram, extra_bits, comment, freq_range, warmboot, nosleep>>

\* config.set_bram_values(ram_block, values, address, mode)
CallSetBramValues ==
    /\ NextCall(<< >>, << >>)
    /\ \E ram_block \in {<<bram_cols[1], 1>>, <<bram_cols[1], 2>>}, values \in {<<1>>, <<255, 0>>, <<256>>},
          address \in {0, 511, 512}, mode \in {1, 3} :
           \E r \in {set_bram_values(bram, ram_block, values, address, mode)} :
               /\ bram' = r.st
               /\ codec_err' = r.err
    /\ UNCHANGED <<tiles, extra_bits, comment, freq_range, warmboot, nosleep>>

\* the fields of the Configuration after a read with outcome r
ReadInto(r) ==
    /\ tiles' = r.cfg.tiles
    /\ bram' = r.cfg.bram
    /\ extra_bits' = r.cfg.extra_bits
    /\ comment' = r.cfg.comment
    /\ freq_range' = r.cfg.freq_range
    /\ warmboot' = r.cfg.warmboot
    /\ nosleep' = r.cfg.nosleep
    /\ codec_err' = r.err

\* config.read_asc(asc_file)
CallReadAsc ==
    LET
        \* the text files read_asc is called with
        \* the extra_bit entries of the files: none, a coordinate of the geometry,
        \* a coordinate inside a tile, one coordinate twice
        ShapeTestExtraBits ==
            {<< >>,
             <<Str(<<".", "e", "x", "t", "r", "a", "_", "b", "i", "t", " ", "0", " ", "1", "1", "8", " ", "7", "8", "\n">>)>>,
             <<Str(<<".", "e", "x", "t", "r", "a", "_", "b", "i", "t", " ", "0", " ", "1", " ", "1", "\n">>)>>,
             <<Str(<<".", "e", "x", "t", "r", "a", "_", "b", "i", "t", " ", "1", " ", "1", "1", "9", " ", "7", "9", "\n">>),
               Str(<<".", "e", "x", "t", "r", "a", "_", "b", "i", "t", " ", "1", " ", "1", "1", "9", " ", "7", "9", "\n">>)>>}
        ShapeTestAscFiles ==
            {<<Str(<<".", "d", "e", "v", "i", "c", "e", " ", "8", "k", "\n">>)>> \o t \o m \o e :
                 t \in AscTestTiles, m \in AscTestRams, e \in ShapeTestExtraBits}
    IN
    \E file \in ShapeTestAscFiles :
        /\ NextCall(file, << >>)
        /\ ReadInto(read_asc(self, file))

\* config.read_bin(bin_file): of what write_bin writes for the Configuration,
\* of a line of a bank, of a line of width 7, of a stream that sets the flags
CallReadBin ==
    LET
        \* a stream with a line of CRAM bank 0 of the width of the bank, one bit set
        full_line_stream ==
            write_comment(<< >>) \o write_preamble \o crc_reset
            \o set_bank_number(0) \o set_bank_width(cram_width - 1) \o set_bank_height(1)
            \o set_bank_offset(tile_height) \o <<1, 1>>
            \o [k \in 1..(cram_width \div 8) |-> IF k = 3 THEN 32 ELSE 0] \o <<0, 0>>
        \* a stream with a line of CRAM bank 0 of width 7: the data of the line is
        \* 7 // 8 = 0 bytes long
        narrow_line_stream ==
            write_comment(<< >>) \o write_preamble \o crc_reset
            \o set_bank_number(0) \o set_bank_width(6) \o set_bank_height(1)
            \o set_bank_offset(tile_height) \o <<1, 1>> \o <<0, 0>>
        \* what write_bin writes for a Configuration with a comment, the high
        \* frequency range, warmboot off and nosleep on
        flag_stream ==
            write_comment(Str(<<"x">>)) \o write_preamble \o write_freq_range(2)
            \o crc_reset \o write_warmboot(FALSE, TRUE)
    IN
    \E file \in {write_bin(self, None).file, full_line_stream, narrow_line_stream, flag_stream} :
        /\ NextCall(<< >>, file)
        /\ ReadInto(read_bin(self, file))

SpecConfiguration == ConfigurationInit /\ [][CallClear \/ CallSetBit \/ CallSetBits \/ CallSetBramValues \/ CallReadAsc \/ CallReadBin]_vars

\* C10: after construction and after every sequence of clear, set_bit, set_bits,
\* set_bram_values, read_asc and read_bin calls that raise no exception, _tiles
\* holds a matrix for exactly the positions of the geometry, each row as wide as
\* the tile type of the position, and _bram holds exactly the positions of the
\* block memories, each row 256 bits.
C10_ShapeInvariant ==
    codec_err = "none" =>
        /\ tiles.keys = TilePositions
        /\ \A pos \in tiles.keys : \A row \in 0..(tile_height - 1) :
               RowLen(tiles, pos, row) = tile_type_width(TileTypeOf(pos))
        /\ bram.keys = BramPositions
        /\ \A pos \in bram.keys : \A row \in 0..15 : RowLen(bram, pos, row) = 256

\* C11: in every state reached through clear, read_asc and read_bin, every
\* element of _extra_bits is a coordinate of the extra bits of the geometry
\* and no coordinate is held twice.
C11_ExtraBitInvariant ==
    /\ \A k \in 1..Len(extra_bits) : extra_bits[k] \in Elements(spec_extra_bits)
    /\ Cardinality(Elements(extra_bits)) = Len(extra_bits)

\* C12: after read_asc or read_bin has returned, every field of the
\* Configuration equals what the same read yields on a blank Configuration,
\* whatever the Configuration held before the call.
C12_ReadResetsToBlank ==
    /\ (asc_file # << >> /\ codec_err = "none") => self = read_asc(BlankConfiguration, asc_file).cfg
    /\ (bin_file # << >> /\ codec_err = "none") => self = read_bin(BlankConfiguration, bin_file).cfg

(***************************************************************************)
(* Specification SpecSetBits: test_set_bit and test_set_bits.  set_bit and *)
(* set_bits are called on a blank Configuration and on the Configuration   *)
(* the call before left.                                                   *)
(***************************************************************************)

SpecSetBits == ConfigurationInit /\ [][CallSetBit \/ CallSetBits]_vars

\* C25: a call set_bit(x, y, group, index, value) that raises no exception
\* leaves get_bit(x, y, group, index) = value and every other tile bit as it
\* was; a call of set_bits leaves every addressed bit at the value given last
\* for it and every other tile bit as it was; a call that raises an exception
\* changes addressed bits only.  No call changes the shape of a tile, a bit of
\* the block memories, the extra bits or a scalar field.
C25_SetBitFrame ==
    [][LET \* the position a Python index stands for in a sequence of the length
           Norm(index, length) == IF index < 0 THEN index + length ELSE index
           \* the cell get_bit(x, y, group, index) reads
           Addressed(tile, group, index) ==
               <<tile, Norm(group, tile_height),
                 Norm(index, RowLen(tiles, tile, Norm(group, tile_height)))>>
           \* the cells the bits of a call of set_bits address
           Cells(tile, bits) == {Addressed(tile, bits[i][1], bits[i][2]) : i \in 1..Len(bits)}
           Frame(cells) ==
               /\ tiles'.ones \ cells = tiles.ones \ cells
               /\ tiles'.keys = tiles.keys
               /\ tiles'.resized = tiles.resized
               /\ tiles'.shape = tiles.shape
               /\ UNCHANGED <<bram, extra_bits, comment, freq_range, warmboot, nosleep>>
       IN  calls' = calls + 1 =>
           /\ \A x \in {0, 1}, y \in {0, 1}, group \in {0, 15, 16}, index \in {-1, 0, 17, 18}, value \in BOOLEAN :
                  (/\ tiles' = set_bit(tiles, x, y, group, index, value).st
                   /\ codec_err' = set_bit(tiles, x, y, group, index, value).err)
                  => IF codec_err' = "none"
                     THEN /\ (Addressed(<<x, y>>, group, index) \in tiles'.ones) = value
                          /\ Frame({Addressed(<<x, y>>, group, index)})
                     ELSE tiles' = tiles /\ Frame({})
           /\ \A tile \in {<<2, 3>>, <<0, 0>>},
                 bits \in {<<<<0, 0>>, <<15, 53>>>>, <<<<-1, -54>>>>, <<<<0, 54>>>>, <<<<16, 0>>>>},
                 values \in {<<TRUE, FALSE>>, <<TRUE>>, <<FALSE, TRUE>>} :
                  (/\ tiles' = set_bits(tiles, tile, bits, values).st
                   /\ codec_err' = set_bits(tiles, tile, bits, values).err)
                  => IF codec_err' = "none"
                     THEN /\ \A i \in 1..Len(bits) :
                                 (\A k \in (i + 1)..Len(bits) :
                                      Addressed(tile, bits[k][1], bits[k][2]) # Addressed(tile, bits[i][1], bits[i][2]))
                                 => (Addressed(tile, bits[i][1], bits[i][2]) \in tiles'.ones) = values[i]
                          /\ Frame(Cells(tile, bits))
                     ELSE IF tile \in tiles.keys THEN Frame(Cells(tile, bits))
                     ELSE tiles' = tiles /\ Frame({})]_vars

\* set_bit was called twice, for a bit of an IO tile and a bit of a logic tile:
\* both bits are set and no other
C25_Witness ==
    /\ calls = 2
    /\ codec_err = "none"
    /\ tiles.ones = {<<<<0, 1>>, 15, 17>>, <<<<1, 1>>, 0, 18>>}
    /\ bram = BlankConfiguration.bram

(***************************************************************************)
(* Specification SpecAscEntries: read_asc of text files with an entry that *)
(* read_asc does not know, a device entry of another device or a sym       *)
(* entry, at the start of the file, after other entries and after the      *)
(* lines of a comment; write_asc and a second read_asc when the first      *)
(* raised no exception.  write_asc is also called for Configurations with  *)
(* and without a comment, tile bits, block memories with and without a     *)
(* True cell, extra bits and the warmboot flag, as earlier calls left      *)
(* them.                                                                   *)
(***************************************************************************)

\* the entry lines under test
AscTestEntries ==
    [unknown |-> {Str(<<".", "f", "o", "o", " ", "1", " ", "2", "\n">>),
                 Str(<<".", "\n">>),
                 Str(<<".", "s", "y", "m", "b", "o", "l", " ", "1", " ", "a", "\n">>),
                 Str(<<".", "i", "o", "_", "t", "i", "l", "e", "s", " ", "0", " ", "1", "\n">>),
                 Str(<<".", "d", "e", "v", "i", "c", "e", "8", "k", "\n">>)},
     device |-> {Str(<<".", "d", "e", "v", "i", "c", "e", " ", "1", "k", "\n">>),
                Str(<<".", "d", "e", "v", "i", "c", "e", " ", "8", "\n">>),
                Str(<<" ", " ", ".", "d", "e", "v", "i", "c", "e", " ", " ", " ", "8", "k", "5", " ", "\n">>)},
     sym |-> {Str(<<".", "s", "y", "m", " ", "3", " ", "a", "b", "c", "\n">>),
             Str(<<".", "s", "y", "m", "\n">>),
             Str(<<" ", ".", "s", "y", "m", " ", "1", " ", "2", " ", "3", "\n">>)}]

AscEntriesInit ==
    LET
        \* the lines before the entry under test
        AscTestHeads ==
            {<< >>,
             <<Str(<<".", "d", "e", "v", "i", "c", "e", " ", "8", "k", "\n">>)>>,
             <<Str(<<".", "c", "o", "m", "m", "e", "n", "t", "\n">>), Str(<<"a", " ", "b", "\n">>)>>,
             <<Str(<<".", "d", "e", "v", "i", "c", "e", " ", "8", "k", "\n">>), Str(<<".", "e", "x", "t", "r", "a", "_", "b", "i", "t", " ", "0", " ", "1", "1", "8", " ", "7", "8", "\n">>)>>}
        \* the lines after the entry under test
        AscTestTails ==
            {<< >>,
             <<Str(<<".", "e", "x", "t", "r", "a", "_", "b", "i", "t", " ", "1", " ", "1", "1", "9", " ", "7", "9", "\n">>)>>,
             <<Str(<<".", "c", "o", "m", "m", "e", "n", "t", "\n">>), Str(<<"l", "a", "s", "t">>)>>,
             <<Str(<<"\n">>), Str(<<".", "s", "y", "m", " ", "1", " ", "n", "\n">>)>>,
             <<Str(<<"t", "e", "x", "t", "\n">>)>>}
            \cup (AscTestTiles \ {<< >>})
        \* the cells of the block memories that are True in a Configuration that is
        \* written
        WriteTestBlocks ==
            {{},
             {<<<<4, 7>>, 15, 3>>},
             {<<<<4, 1>>, 0, 255>>, <<<<1, 3>>, 2, 0>>, <<<<1, 3>>, 2, 17>>}}
    IN
    /\ SliceIdle
    /\ GenIdle
    /\ FmIdle
    /\ BvIdle
    /\ BankIdle
    /\ bin_file = << >>
    /\ bin_org = << >>
    /\ bin_opt = None
    /\ cfg2 = BlankConfiguration
    /\ codec_err = "none"
    /\ calls = 0
    /\ \/ /\ ConfigIdle
          /\ \E h \in AscTestHeads, t \in AscTestTails,
                e \in {<< >>} \cup {<<l>> : l \in AscTestEntries.unknown \cup AscTestEntries.device \cup AscTestEntries.sym} :
                 asc_file = h \o e \o t
          /\ codec_pc = "file"
       \/ /\ tiles \in {BlankConfiguration.tiles,
                         [BlankConfiguration.tiles EXCEPT
                             !.ones = {<<<<0, 1>>, 0, 0>>, <<<<2, 3>>, 15, 53>>, <<<<1, 2>>, 7, 41>>}]}
          /\ bram \in {[BlankConfiguration.bram EXCEPT !.ones = ones] : ones \in WriteTestBlocks}
          /\ extra_bits \in {<< >>, <<<<0, 118, 78>>>>, <<<<1, 119, 79>>, <<0, 118, 78>>, <<1, 119, 79>>>>}
          /\ comment \in {<< >>, Str(<<"a", " ", "b", "\n">>), Str(<<"x">>), Str(<<"c", "\n", "\n", "d", "\n">>)}
          /\ freq_range = BlankConfiguration.freq_range
          /\ warmboot \in BOOLEAN
          /\ nosleep = BlankConfiguration.nosleep
          /\ asc_file = << >>
          /\ codec_pc = "read"

SpecAscEntries == AscEntriesInit /\ [][ReadAsc \/ WriteAsc \/ ReadAscAgain]_vars

\* C15: read_asc of a file raises ValueError when, after lines read without an
\* exception, a line holds an entry other than a tile type, ram_data,
\* extra_bit, comment, device, warmboot and sym, or a device entry with a name
\* other than asc_name of the DeviceSpec.  A sym entry after lines read without
\* an exception raises none and leaves every field as the lines before it set
\* it; followed by an entry or the end of the file, the call ends as it does
\* for the file without the sym entry.
C15_UnknownEntryAndDeviceMismatch ==
    codec_pc = "read" =>
        \A k \in 1..Len(asc_file) :
            LET before == read_asc(BlankConfiguration, SubSeq(asc_file, 1, k - 1))
                with   == read_asc(BlankConfiguration, SubSeq(asc_file, 1, k))
                rest   == SubSeq(asc_file, k + 1, Len(asc_file))
            IN  before.err = "none" =>
                    /\ asc_file[k] \in AscTestEntries.unknown \cup AscTestEntries.device =>
                           codec_err = "ValueError"
                    /\ asc_file[k] \in AscTestEntries.sym =>
                           /\ with = before
                           /\ (rest = << >> \/ rest[1][1] = ord(".")) =>
                                  [err |-> codec_err, cfg |-> self] =
                                      read_asc(BlankConfiguration, SubSeq(asc_file, 1, k - 1) \o rest)

\* an entry that read_asc does not know ends the comment it follows, with the
\* ValueError
C15_Witness ==
    /\ codec_pc = "read"
    /\ codec_err = "ValueError"
    /\ asc_file = <<Str(<<".", "c", "o", "m", "m", "e", "n", "t", "\n">>), Str(<<"a", " ", "b", "\n">>), Str(<<".", "f", "o", "o", " ", "1", " ", "2", "\n">>), Str(<<".", "e", "x", "t", "r", "a", "_", "b", "i", "t", " ", "1", " ", "1", "1", "9", " ", "7", "9", "\n">>)>>
    /\ extra_bits = << >>

\* C16 as stated: write_asc writes the device line first, then the line
\* ".warmboot disabled" if and only if warmboot is False, then for every tile in
\* ascending order of the positions the entry line and 16 data lines, then a
\* ram_data entry for each block memory with a True cell, in ascending order of
\* the positions, and none for the others, then a line for each extra bit.
C16_DeviceLineFirst ==
    LET out == asc_file
        \* the lines of the comment entry
        n_c == 0
        wb == IF warmboot THEN 0 ELSE 1
        blocks == {pos \in bram.keys : \E cell \in bram.ones : cell[1] = pos}
        \* the number of positions of a set before a position, by x, then by y
        rank(set, pos) ==
            Cardinality({q \in set : q[1] < pos[1] \/ (q[1] = pos[1] /\ q[2] < pos[2])})
        base_t == n_c + 1 + wb
        base_r == base_t + 17 * Cardinality(tiles.keys)
        base_e == base_r + 17 * Cardinality(blocks)
        entry(name, pos) == <<ord(".")>> \o name \o <<ord(" "), 48 + pos[1], ord(" "), 48 + pos[2], LF>>
        starts(line, text) == Len(line) >= Len(text) /\ SubSeq(line, 1, Len(text)) = text
    IN  codec_pc = "written" =>
            /\ Len(out) = base_e + Len(extra_bits)
            /\ out[n_c + 1] = Str(<<".", "d", "e", "v", "i", "c", "e", " ">>) \o asc_name \o <<LF>>
            /\ \A k \in 1..Len(out) :
                   out[k] = Str(<<".", "w", "a", "r", "m", "b", "o", "o", "t", " ", "d", "i", "s", "a", "b", "l", "e", "d", "\n">>) <=> (~warmboot /\ k = n_c + 2)
            /\ \A pos \in tiles.keys :
                   /\ out[base_t + 17 * rank(tiles.keys, pos) + 1] =
                          entry(TILE_TYPE_TO_ASC_ENTRY(TileTypeOf(pos)), pos)
                   /\ \A row \in 1..16 :
                          LET line == out[base_t + 17 * rank(tiles.keys, pos) + 1 + row]
                          IN  /\ Len(line) = RowLen(tiles, pos, row - 1) + 1
                              /\ \A k \in 1..(Len(line) - 1) : line[k] \in {ord("0"), ord("1")}
            /\ \A pos \in blocks :
                   /\ out[base_r + 17 * rank(blocks, pos) + 1] = entry(Str(<<"r", "a", "m", "_", "d", "a", "t", "a">>), pos)
                   /\ \A row \in 1..16 : Len(out[base_r + 17 * rank(blocks, pos) + 1 + row]) = 65
            /\ \A k \in 1..Len(out) :
                   starts(out[k], Str(<<".", "r", "a", "m", "_", "d", "a", "t", "a", " ">>)) =>
                       \E pos \in blocks : k = base_r + 17 * rank(blocks, pos) + 1
            /\ \A k \in 1..Len(out) :
                   starts(out[k], Str(<<".", "e", "x", "t", "r", "a", "_", "b", "i", "t", " ">>)) <=> k > base_e

\* C16: write_asc writes, for a comment that is not empty, the line ".comment"
\* and the lines of the comment first; then the device line, then the line
\* ".warmboot disabled" if and only if warmboot is False, then for every tile in
\* ascending order of the positions the entry line and 16 data lines, then a
\* ram_data entry for each block memory with a True cell, in ascending order of
\* the positions, and none for the others, then a line for each extra bit.
C16_CommentThenDeviceLine ==
    LET out == asc_file
        \* the lines of the comment entry
        n_c == IF comment = << >> THEN 0
               ELSE 1 + Cardinality({k \in 1..Len(comment) : comment[k] = LF})
                      + (IF comment[Len(comment)] = LF THEN 0 ELSE 1)
        wb == IF warmboot THEN 0 ELSE 1
        blocks == {pos \in bram.keys : \E cell \in bram.ones : cell[1] = pos}
        \* the number of positions of a set before a position, by x, then by y
        rank(set, pos) ==
            Cardinality({q \in set : q[1] < pos[1] \/ (q[1] = pos[1] /\ q[2] < pos[2])})
        base_t == n_c + 1 + wb
        base_r == base_t + 17 * Cardinality(tiles.keys)
        base_e == base_r + 17 * Cardinality(blocks)
        entry(name, pos) == <<ord(".")>> \o name \o <<ord(" "), 48 + pos[1], ord(" "), 48 + pos[2], LF>>
        starts(line, text) == Len(line) >= Len(text) /\ SubSeq(line, 1, Len(text)) = text
    IN  codec_pc = "written" =>
            /\ Len(out) = base_e + Len(extra_bits)
            /\ out[n_c + 1] = Str(<<".", "d", "e", "v", "i", "c", "e", " ">>) \o asc_name \o <<LF>>
            /\ \A k \in 1..Len(out) :
                   out[k] = Str(<<".", "w", "a", "r", "m", "b", "o", "o", "t", " ", "d", "i", "s", "a", "b", "l", "e", "d", "\n">>) <=> (~warmboot /\ k = n_c + 2)
            /\ \A pos \in tiles.keys :
                   /\ out[base_t + 17 * rank(tiles.keys, pos) + 1] =
                          entry(TILE_TYPE_TO_ASC_ENTRY(TileTypeOf(pos)), pos)
                   /\ \A row \in 1..16 :
                          LET line == out[base_t + 17 * rank(tiles.keys, pos) + 1 + row]
                          IN  /\ Len(line) = RowLen(tiles, pos, row - 1) + 1
                              /\ \A k \in 1..(Len(line) - 1) : line[k] \in {ord("0"), ord("1")}
            /\ \A pos \in blocks :
                   /\ out[base_r + 17 * rank(blocks, pos) + 1] = entry(Str(<<"r", "a", "m", "_", "d", "a", "t", "a">>), pos)
                   /\ \A row \in 1..16 : Len(out[base_r + 17 * rank(blocks, pos) + 1 + row]) = 65
            /\ \A k \in 1..Len(out) :
                   starts(out[k], Str(<<".", "r", "a", "m", "_", "d", "a", "t", "a", " ">>)) =>
                       \E pos \in blocks : k = base_r + 17 * rank(blocks, pos) + 1
            /\ \A k \in 1..Len(out) :
                   starts(out[k], Str(<<".", "e", "x", "t", "r", "a", "_", "b", "i", "t", " ">>)) <=> k > base_e

\* a Configuration with a comment, warmboot off, tile bits, two block memories
\* with a True cell and three extra bits was written
C16_Witness ==
    /\ codec_pc = "written"
    /\ comment = Str(<<"c", "\n", "\n", "d", "\n">>)
    /\ ~warmboot
    /\ tiles.ones # {}
    /\ {cell[1] : cell \in bram.ones} = {<<4, 1>>, <<1, 3>>}
    /\ Len(extra_bits) = 3
    /\ asc_file[1] = Str(<<".", "c", "o", "m", "m", "e", "n", "t", "\n">>)
    /\ asc_file[5] = Str(<<".", "d", "e", "v", "i", "c", "e", " ", "8", "k", "\n">>)
    /\ asc_file[6] = Str(<<".", "w", "a", "r", "m", "b", "o", "o", "t", " ", "d", "i", "s", "a", "b", "l", "e", "d", "\n">>)
    /\ asc_file[Len(asc_file) - 3 - 16] = Str(<<".", "r", "a", "m", "_", "d", "a", "t", "a", " ", "4", " ", "1", "\n">>)

(***************************************************************************)
(* Specification SpecStreams: read_bin of byte streams as other tools      *)
(* write them, into a blank Configuration: with and without the bytes FF   *)
(* 00 at the start, comment strings with and without their null at the     *)
(* end, the bytes 00 FF once, twice and not at all, the preamble whole,    *)
(* in part and not at all, and the stream ending at every point; streams   *)
(* of single commands, of commands around a wakeup and of load commands    *)
(* with and without the bank parameters; a complete stream cut at every    *)
(* offset, bin_org the complete stream.                                    *)
(***************************************************************************)

StreamsInit ==
    LET
        \* the first bytes of a stream
        StreamStarts == {<<255, 0>>, <<255>>, <<255, 1>>, <<0, 0>>, << >>}
        \* the comment strings of a stream, as bytes
        StreamComments ==
            {<< >>, <<120>>, <<120, 0>>, <<120, 0, 121>>, <<120, 0, 121, 0>>, <<0>>, <<126, 170, 153, 126, 0>>}
        \* the bytes after the comment strings
        StreamEnds == {<<0, 255>>, <<0, 255, 122, 0, 0, 255>>, <<0>>, << >>}
        \* the bytes from which the preamble is searched
        StreamPreambles ==
            {<<126, 170, 153, 126>>, <<0, 126, 126, 170, 153, 126>>, <<126, 170, 153>>,
             <<126, 170, 126, 153, 126>>, << >>}
        \* the commands of a stream
        StreamCommands == {<< >>, <<1, 6>>, <<1, 6, 9, 9>>, <<81, 1>>}
        \* the starts of a stream with the commands under test: an empty comment block
        \* and the preamble, or the preamble alone
        CommandStarts == {<<255, 0, 0, 255>> \o write_preamble, write_preamble}
        \* single commands: every opcode without payload bytes, opcode 0 with every
        \* payload of one byte up to 9, frequency ranges, flags, CRC checks
        SingleCommands ==
            {<<16 * opcode>> : opcode \in 0..15}
            \cup {<<1, payload>> : payload \in 0..9}
            \cup {<<81, 0>>, <<81, 2>>, <<81, 3>>, <<81, 255>>, <<82, 1, 0>>, <<146, 0, 1>>, <<146, 0, 32>>,
                  <<34, 0, 0>>, <<65, 0>>}
        \* a wakeup command, commands before it and bytes after it
        WakeupCommands ==
            {before \o <<1, 6>> \o after :
                before \in {<< >>, <<81, 2>>},
                after \in {<<0>>, <<81, 1>>, <<64>>, <<9, 9>>, <<146, 0, 1, 1, 8>>,
                           set_bank_number(0) \o set_bank_width(7) \o set_bank_height(1)
                           \o set_bank_offset(0) \o <<1, 3, 128, 0, 0>>}}
        \* the width, the offset and the data of a load command under test: cell 18
        \* of row 16 of a CRAM bank, cell 0 of row 0 of a BRAM bank
        LoadWidth(command) == IF command = 1 THEN 23 ELSE 7
        LoadOffset(command) == IF command = 1 THEN 16 ELSE 0
        LoadData(command) == IF command = 1 THEN <<0, 0, 32>> ELSE <<128>>
        \* a load command with one row of data after any of the four bank parameters,
        \* with the two bytes after the data
        LoadCommands ==
            {(IF "number" \in set THEN set_bank_number(0) ELSE << >>)
             \o (IF "width" \in set THEN set_bank_width(LoadWidth(command)) ELSE << >>)
             \o (IF "height" \in set THEN set_bank_height(1) ELSE << >>)
             \o (IF "offset" \in set THEN set_bank_offset(LoadOffset(command)) ELSE << >>)
             \o <<1, command>> \o LoadData(command) \o trailer \o <<1, 6>> :
                set \in SUBSET {"number", "width", "height", "offset"}, command \in {1, 3},
                trailer \in {<<0, 0>>, <<0, 1>>, <<1, 0>>, <<255, 255>>}}
        \* the Configurations of the complete streams: a tile bit and two block-memory
        \* bits
        StreamTestConfigurations ==
            {[BlankConfiguration EXCEPT !.tiles.ones = {<<<<1, 1>>, 0, 0>>},
                                        !.bram.ones = {<<<<bram_cols[1], 1>>, 0, 0>>, <<<<bram_cols[1], 1>>, 0, 17>>},
                                        !.freq_range = 1, !.nosleep = TRUE]}
    IN
    /\ SliceIdle
    /\ GenIdle
    /\ FmIdle
    /\ BvIdle
    /\ BankIdle
    /\ ConfigIdle
    /\ \/ /\ \E st \in StreamStarts, co \in StreamComments, en \in StreamEnds,
                pr \in StreamPreambles, cm \in StreamCommands :
                 bin_file = st \o co \o en \o pr \o cm
          /\ bin_org = bin_file
       \/ /\ \E st \in CommandStarts, cm \in SingleCommands \cup WakeupCommands \cup LoadCommands :
                 bin_file = st \o cm
          /\ bin_org = bin_file
       \/ \E c \in StreamTestConfigurations :
              /\ bin_org = write_bin_stream(c).file
              /\ \E k \in 0..Len(bin_org) : bin_file = SubSeq(bin_org, 1, k)
    /\ bin_opt = None
    /\ asc_file = << >>
    /\ cfg2 = BlankConfiguration
    /\ codec_err = "none"
    /\ codec_pc = "written"
    /\ calls = 0

SpecStreams == StreamsInit /\ [][ReadBin]_vars

C20_TerminatorOnlyAfterNull ==
    (/\ codec_pc = "read"
     /\ codec_err = "none"
     /\ Len(bin_file) >= 2 /\ SubSeq(bin_file, 1, 2) = <<255, 0>>)
    => LET genuine == {k \in 3..(Len(bin_file) - 1) :
                          /\ bin_file[k] = 0 /\ bin_file[k + 1] = 255
                          /\ (k = 3 \/ bin_file[k - 1] = 0)}
       IN  genuine # {} =>
               /\ Cardinality({k \in 1..Len(cfg2.comment) : cfg2.comment[k] # LF})
                      >= Cardinality({k \in 3..(Lowest(genuine) - 1) : bin_file[k] \in 1..127})
               /\ cfg2.comment # << >> => cfg2.comment[Len(cfg2.comment)] = LF

\* C20: the first bytes 00 FF after the start FF 00 end the comment, after a
\* string with its null and after one without.  The comment read is the bytes
\* before them with a line break for every null; when the byte before them is
\* not a null, a line break is added for the string it ends.  The bytes after
\* them are passed over in the search for the preamble.
C20_FirstTerminatorEndsComment ==
    (/\ codec_pc = "read"
     /\ codec_err = "none"
     /\ Len(bin_file) >= 2 /\ SubSeq(bin_file, 1, 2) = <<255, 0>>)
    => LET pairs == {k \in 3..(Len(bin_file) - 1) : bin_file[k] = 0 /\ bin_file[k + 1] = 255}
           first == Lowest(pairs)
       IN  /\ pairs # {}
           /\ cfg2.comment =
                  [k \in 1..(first - 3) |-> IF bin_file[k + 2] = 0 THEN LF ELSE bin_file[k + 2]]
                  \o (IF first > 3 /\ bin_file[first - 1] # 0 THEN <<LF>> ELSE << >>)

\* the bytes 00 FF after the string "x" without its null ended the comment; the
\* string "z" with its null and the second 00 FF were passed over
C20_Witness ==
    /\ codec_pc = "read"
    /\ codec_err = "none"
    /\ bin_file = <<255, 0, 120, 0, 255, 122, 0, 0, 255, 126, 170, 153, 126, 1, 6>>
    /\ cfg2.comment = <<120, LF>>

\* C23: when read_bin comes to a wakeup command (01 06 at the place of a
\* command), the Configuration read and the success of the call are those of
\* the stream cut after the wakeup, whatever bytes follow it.
C23_WakeupEndsProcessing ==
    codec_pc = "read" =>
        \A k \in 2..Len(bin_file) :
            (/\ SubSeq(bin_file, k - 1, k) = <<1, 6>>
             /\ read_bin(BlankConfiguration, SubSeq(bin_file, 1, k - 2)).err = "none")
            => /\ codec_err = "none"
               /\ read_bin(BlankConfiguration, SubSeq(bin_file, 1, k)) = [err |-> codec_err, cfg |-> cfg2]

\* a frequency range command, the wakeup and a second frequency range command
\* were read: the range is the one set before the wakeup
C23_Witness ==
    /\ codec_pc = "read"
    /\ bin_file = <<255, 0, 0, 255, 126, 170, 153, 126, 81, 2, 1, 6, 81, 1>>
    /\ codec_err = "none"
    /\ cfg2.freq_range = 2

\* C24: read_bin of a stream whose first command has an opcode outside
\* {0, 1, 2, 5, 6, 7, 8, 9}, or opcode 0 with a payload other than 1, 3, 5, 6
\* (the reboot 8 among them), or a frequency range other than 0, 1, 2, or
\* whose load command with all four bank parameters set has other bytes than
\* 00 00 after its data, raises MalformedBitstreamError.
C24_MalformedCommands ==
    (/\ codec_pc = "read"
     /\ Len(bin_file) > 8
     /\ SubSeq(bin_file, 1, 8) = <<255, 0, 0, 255>> \o write_preamble)
    => LET tail == SubSeq(bin_file, 9, Len(bin_file))
           payload == IF Len(tail) = 2 THEN tail[2] ELSE tail[2] * 256 + tail[3]
           data_len == ((tail[4] * 256 + tail[5] + 1) * (tail[7] * 256 + tail[8])) \div 8
       IN  /\ (tail[1] \div 16 \notin {0, 1, 2, 5, 6, 7, 8, 9} /\ Len(tail) = 1 + (tail[1] % 16))
                  => codec_err = "MalformedBitstreamError"
           /\ (tail[1] \div 16 = 0 /\ Len(tail) = 1 + (tail[1] % 16) /\ Len(tail) \in 2..3
                  /\ payload \notin {1, 3, 5, 6})
                  => codec_err = "MalformedBitstreamError"
           /\ (tail[1] \div 16 = 5 /\ Len(tail) = 1 + (tail[1] % 16) /\ Len(tail) \in 2..3
                  /\ payload \notin 0..2)
                  => codec_err = "MalformedBitstreamError"
           /\ (/\ Len(tail) > 13
               /\ <<tail[1], tail[3], tail[6], tail[9], tail[12]>> = <<17, 98, 114, 130, 1>>
               /\ tail[13] \in {1, 3}
               /\ Len(tail) >= 15 + data_len
               /\ SubSeq(tail, 14 + data_len, 15 + data_len) # <<0, 0>>)
                  => codec_err = "MalformedBitstreamError"

\* C28: read_bin of a stream that begins with the preamble, without the
\* comment block before it, raises no exception when the commands after the
\* preamble raise none; the comment read is empty, the Configuration is the one
\* read from the same stream after an empty comment block, and the blank one
\* for the preamble followed by a wakeup.
C28_NoCommentBlock ==
    (/\ codec_pc = "read"
     /\ Len(bin_file) >= 4
     /\ SubSeq(bin_file, 1, 4) = write_preamble
     /\ read_bin(BlankConfiguration, write_comment(<< >>) \o bin_file).err = "none")
    => /\ codec_err = "none"
       /\ cfg2.comment = << >>
       /\ cfg2 = read_bin(BlankConfiguration, write_comment(<< >>) \o bin_file).cfg
       /\ bin_file = write_preamble \o <<1, 6>> => cfg2 = BlankConfiguration

\* C29 as stated: read_bin of a complete stream cut at any offset behind the
\* preamble and before the wakeup command, the offsets between two commands
\* among them, raises EOFError or MalformedBitstreamError.
C29_NoPartialSuccess ==
    (/\ codec_pc = "read"
     /\ bin_file # bin_org
     /\ Len(bin_file) >= Len(write_comment(<< >>) \o write_preamble)
     /\ Len(bin_file) <= Len(bin_org) - 3)
    => codec_err \in {"EOFError", "MalformedBitstreamError"}

\* C29: read_bin of a complete stream cut behind the preamble and before the
\* wakeup command raises EOFError when the cut lies inside a command (in its
\* payload, its data or the two bytes after the data); cut exactly between two
\* commands it raises no exception, the end of the input at the place of a
\* command ending the loop, and returns the Configuration of the commands
\* before the cut: no bank data before the first load command is complete.
C29_SuccessBetweenCommands ==
    (/\ codec_pc = "read"
     /\ bin_file # bin_org
     /\ Len(bin_file) >= Len(write_comment(<< >>) \o write_preamble)
     /\ Len(bin_file) < Len(bin_org) - 2)
    => LET \* the numbers of bytes of a stream after which a command begins, from the
           \* first command at pos to the wakeup: a command is its first byte and as many
           \* payload bytes as the low half of that byte says; a load command is followed
           \* by width * height // 8 bytes of data and two more bytes
           RECURSIVE CommandStartsOf(_, _, _, _)
           CommandStartsOf(file, pos, width, height) ==
               LET n == file[pos] % 16
                   payload == IF n = 1 THEN file[pos + 1] ELSE file[pos + 1] * 256 + file[pos + 2]
                   load == file[pos] = 1 /\ payload \in {1, 3}
                   next == pos + 1 + n + (IF load THEN (width * height) \div 8 + 2 ELSE 0)
               IN  IF pos > Len(file) THEN {}
                   ELSE IF file[pos] = 1 /\ payload = 6 THEN {pos - 1}
                   ELSE {pos - 1} \cup CommandStartsOf(file, next,
                                                       IF file[pos] \div 16 = 6 THEN payload + 1 ELSE width,
                                                       IF file[pos] \div 16 = 7 THEN payload ELSE height)
           starts == CommandStartsOf(bin_org, Len(write_comment(<< >>) \o write_preamble) + 1, 0, 0)
           loads == {k \in 1..(Len(bin_org) - 1) : bin_org[k] = 1 /\ bin_org[k + 1] \in {1, 3} /\ (k - 1) \in starts}
       IN  /\ codec_err = (IF Len(bin_file) \in starts THEN "none" ELSE "EOFError")
           /\ (\A k \in loads : Len(bin_file) < k + 1) => (cfg2.tiles.ones = {} /\ cfg2.bram.ones = {})
           /\ codec_err = "none" => cfg2 = read_bin(BlankConfiguration, bin_file \o <<1, 6>>).cfg

\* the stream cut right behind the warmboot command was read without an
\* exception: the frequency range and the flags are those of the stream, the
\* tiles and block memories are blank, those of the complete stream are not
C29_Witness ==
    /\ codec_pc = "read"
    /\ bin_file # bin_org
    /\ Len(bin_file) = Len(write_comment(<< >>) \o write_preamble) + 7
    /\ codec_err = "none"
    /\ cfg2.freq_range = 1
    /\ cfg2.nosleep
    /\ cfg2.tiles.ones = {} /\ cfg2.bram.ones = {}
    /\ read_bin(BlankConfiguration, bin_org).err = "none"
    /\ read_bin(BlankConfiguration, bin_org).cfg.bram.ones # {}

\* C30: read_bin of a stream whose first load command (CRAM or BRAM) comes
\* before the bank number, the width, the height and the offset were all set
\* raises MalformedBitstreamError, whichever of the four is missing, and loads
\* no bit into a tile or a block memory.
C30_LoadBeforeBankParameters ==
    (/\ codec_pc = "read"
     /\ Len(bin_file) > 9
     /\ SubSeq(bin_file, 1, 8) = write_comment(<< >>) \o write_preamble)
    => LET tail == SubSeq(bin_file, 9, Len(bin_file)) \o <<0, 0, 0>>
           number == IF tail[1] = 17 THEN 2 ELSE 0
           width == IF tail[number + 1] = 98 THEN 3 ELSE 0
           height == IF tail[number + width + 1] = 114 THEN 3 ELSE 0
           offset == IF tail[number + width + height + 1] = 130 THEN 3 ELSE 0
           load == number + width + height + offset + 1
       IN  (/\ load + 1 <= Len(bin_file) - 8
            /\ tail[load] = 1
            /\ tail[load + 1] \in {1, 3}
            /\ 0 \in {number, width, height, offset})
           => /\ codec_err = "MalformedBitstreamError"
              /\ cfg2.tiles = BlankConfiguration.tiles
              /\ cfg2.bram = BlankConfiguration.bram

(***************************************************************************)
(* Specification SpecBramRange: set_bram_values with values inside and     *)
(* outside the range of the mode, on a blank block memory and on one with  *)
(* every bit set, then get_bram_values when the write raised no exception. *)
(***************************************************************************)

BramRangeInit ==
    /\ SliceIdle
    /\ GenIdle
    /\ FmIdle
    /\ BankIdle
    /\ CodecIdle
    /\ tiles = BlankConfiguration.tiles
    /\ extra_bits = BlankConfiguration.extra_bits
    /\ comment = BlankConfiguration.comment
    /\ freq_range = BlankConfiguration.freq_range
    /\ warmboot = BlankConfiguration.warmboot
    /\ nosleep = BlankConfiguration.nosleep
    /\ bv_block = <<bram_cols[1], 1>>
    /\ bv_mode \in 0..3
    /\ bv_address \in {0, 17, 255, 511, 4095}
    /\ \E top \in {2 ^ value_length_from_mode(bv_mode)} :
           bv_values \in {<<-1>>, <<0>>, <<top - 1>>, <<top>>, <<top + 1>>, <<top - 1, top>>, <<1, -1>>}
    /\ bram \in {BlankConfiguration.bram,
                 [BlankConfiguration.bram EXCEPT
                     !.ones = {<<bv_block, row, c>> : row \in 0..15, c \in 0..255}]}
    /\ bv_read = << >>
    /\ bv_err = "none"
    /\ bv_pc = "input"

SpecBramRange == BramRangeInit /\ [][SetBramValues \/ GetBramValues]_vars

\* C13: set_bram_values of a value that is negative or not below 2^width of the
\* mode, reached after the values before it were written, ends with an
\* AssertionError and leaves the bits of the address of that value as they were.
C13_ValueRangeAssertion ==
    [][SetBramValues =>
          \A k \in 1..Len(bv_values) :
              LET value_len == value_length_from_mode(bv_mode)
                  a         == split_bram_address(bv_address + k - 1)
                  cells     == {<<bv_block, a.row_index, a.col_index * 16 + a.offset + i * (16 \div value_len)>> :
                                   i \in 0..(value_len - 1)}
              IN  (/\ \A j \in 1..(k - 1) :
                         /\ bv_values[j] \in 0..(2 ^ value_len - 1)
                         /\ bv_address + j - 1 < block_size_from_mode(bv_mode)
                   /\ bv_values[k] \notin 0..(2 ^ value_len - 1))
                  => /\ bv_err' = "AssertionError"
                     /\ cells \cap (bram').ones = cells \cap bram.ones]_vars

\* C13 witness: in the 8-bit mode 255 was written at address 0 of a blank block
\* memory and 256 was rejected at address 1
C13_Witness ==
    /\ bv_pc = "written"
    /\ bv_err = "AssertionError"
    /\ bv_mode = 1
    /\ bv_address = 0
    /\ bv_values = <<255, 256>>
    /\ bram.ones = {<<bv_block, 0, 2 * i>> : i \in 0..7}

(***************************************************************************)
(* Specification SpecTileTypes: the generator get_tile_types of a          *)
(* DeviceSpec is advanced pair by pair until it is exhausted.              *)
(***************************************************************************)

\* largest max_x and max_y of a DeviceSpec
MaxTile == 4

TileTypesInit ==
    /\ SliceIdle
    /\ ConfigIdle
    /\ BvIdle
    /\ FmIdle
    /\ BankIdle
    /\ CodecIdle
    /\ gen_spec \in [max_x : 1..MaxTile, max_y : 1..MaxTile,
                     bram_cols : {<< >>, <<1>>, <<2>>, <<1, 3>>}]
    /\ gen_out = << >>
    /\ gen_pc = "running"

\* next() on the generator: the next pair, or the end of the iteration
NextTileType ==
    /\ gen_pc = "running"
    /\ IF Len(gen_out) < Len(get_tile_types_of(gen_spec))
       THEN /\ gen_out' = Append(gen_out, get_tile_types_of(gen_spec)[Len(gen_out) + 1])
            /\ gen_pc' = "running"
       ELSE /\ gen_out' = gen_out
            /\ gen_pc' = "done"
    /\ UNCHANGED <<gen_spec, fmVars, sliceVars, configVars, bvVars, bankVars, codecVars>>

SpecTileTypes == TileTypesInit /\ [][NextTileType]_vars

\* C14 as stated: the pairs come bottom row, top row, left column, right
\* column, then the interior positions line by line (y ascending, x ascending
\* within a line).
C14_BorderRowsFirstThenLines ==
    LET part(pos) ==
            IF pos[2] = 0 THEN 0
            ELSE IF pos[2] = gen_spec.max_y THEN 1
            ELSE IF pos[1] = 0 THEN 2
            ELSE IF pos[1] = gen_spec.max_x THEN 3
            ELSE 4
    IN  \A i, j \in 1..Len(gen_out) :
            i < j =>
                LET a == gen_out[i][1]
                    b == gen_out[j][1]
                IN  /\ part(a) <= part(b)
                    /\ (part(a) = 4 /\ part(b) = 4) =>
                           (a[2] < b[2] \/ (a[2] = b[2] /\ a[1] < b[1]))

\* C14: the pairs come in this order: the I/O positions of the left and the
\* right column, (0, y) right before (max_x, y), y ascending; then the I/O
\* positions of the bottom and the top row, (x, 0) right before (x, max_y),
\* x ascending; then the interior positions column by column (x ascending, y
\* ascending within a column).  Border positions are IO, interior positions of
\* a block-memory column RAM_T on even and RAM_B on odd y, all others LOGIC.
\* The exhausted generator has yielded every position but the four corners,
\* each once.
C14_ColumnsRowsThenInteriorByColumn ==
    LET part(pos) ==
            IF pos[1] = 0 \/ pos[1] = gen_spec.max_x THEN 0
            ELSE IF pos[2] = 0 \/ pos[2] = gen_spec.max_y THEN 1
            ELSE 2
        before(a, b) ==
            \/ part(a) < part(b)
            \/ /\ part(a) = 0 /\ part(b) = 0
               /\ (a[2] < b[2] \/ (a[2] = b[2] /\ a[1] < b[1]))
            \/ /\ part(a) = part(b) /\ part(a) > 0
               /\ (a[1] < b[1] \/ (a[1] = b[1] /\ a[2] < b[2]))
        corner(pos) ==
            pos[1] \in {0, gen_spec.max_x} /\ pos[2] \in {0, gen_spec.max_y}
    IN  /\ \A i, j \in 1..Len(gen_out) : i < j => before(gen_out[i][1], gen_out[j][1])
        /\ \A i \in 1..Len(gen_out) :
               LET pos == gen_out[i][1]
               IN  /\ ~corner(pos)
                   /\ gen_out[i][2] =
                          IF part(pos) < 2 THEN "IO"
                          ELSE IF \E k \in 1..Len(gen_spec.bram_cols) : gen_spec.bram_cols[k] = pos[1]
                               THEN (IF pos[2] % 2 = 0 THEN "RAM_T" ELSE "RAM_B")
                               ELSE "LOGIC"
        /\ gen_pc = "done" =>
               {gen_out[i][1] : i \in 1..Len(gen_out)} =
                   {pos \in (0..gen_spec.max_x) \X (0..gen_spec.max_y) : ~corner(pos)}

C14_Witness ==
    /\ gen_pc = "done"
    /\ gen_spec = [max_x |-> 3, max_y |-> 4, bram_cols |-> <<2>>]
    /\ Len(gen_out) = 16
    /\ gen_out[1] = <<<<0, 1>>, "IO">>
    /\ gen_out[2] = <<<<3, 1>>, "IO">>
    /\ gen_out[7] = <<<<1, 0>>, "IO">>
    /\ gen_out[11] = <<<<1, 1>>, "LOGIC">>
    /\ gen_out[12] = <<<<1, 2>>, "LOGIC">>
    /\ gen_out[15] = <<<<2, 2>>, "RAM_T">>

(***************************************************************************)
(* Specification SpecManager: an FPGAManager is created for a list of      *)
(* devices found, min_nr, max_nr and the serial numbers requested; two     *)
(* processes then acquire boards, with and without a serial number, and    *)
(* release them.  A serial number is the sequence of its characters, a     *)
(* character given by its index in "0123456789AB...Z".  Every call holds   *)
(* _avail_lock from its start to its end.                                  *)
(***************************************************************************)

\* the largest number of devices found
MaxDevices == 3

\* check_serial_number(serial_number): the exception raised.  ALLOWED_DIGITS
\* are the characters 0 to U, with the values 0 to 30.
check_serial_number(serial_number) ==
    LET weights == <<13, 11, 1, 7, 5, 3>>
        RECURSIVE mod_sum(_)
        mod_sum(i) == IF i = 0 THEN 0 ELSE mod_sum(i - 1) + weights[i] * serial_number[i]
    IN  IF Len(serial_number) # 6 THEN "MalformedSerial"
        ELSE IF \E i \in 1..6 : serial_number[i] \notin 0..30 THEN "MalformedSerial"
        ELSE IF mod_sum(6) % 31 # 0 THEN "MalformedSerial"
        ELSE "none"

\* is_valid_serial_number(serial_number): check_serial_number as a predicate
is_valid_serial_number(serial_number) == check_serial_number(serial_number) = "none"

ManagerInit ==
    LET
        \* T80000, T8S001, T8P002
        valid_sn == {<<29, 8, 0, 0, 0, 0>>, <<29, 8, 28, 0, 0, 1>>, <<29, 8, 25, 0, 0, 2>>}
        \* XX and T80001
        invalid_sn == {<<33, 33>>, <<29, 8, 0, 0, 0, 1>>}
        \* the devices of Ftdi.find_all: serial number and number of interfaces
        descriptors ==
            {[sn |-> sn, i_count |-> 2] : sn \in valid_sn \cup {<<33, 33>>}}
            \cup {[sn |-> <<29, 8, 28, 0, 0, 1>>, i_count |-> 1]}
    IN
    /\ SliceIdle
    /\ ConfigIdle
    /\ BvIdle
    /\ GenIdle
    /\ BankIdle
    /\ CodecIdle
    /\ \E n \in 0..MaxDevices : fm_devices \in [1..n -> descriptors]
    /\ fm_args \in [min_nr : 0..2, max_nr : 0..2,
                    serial_numbers : {<< >>, <<<<29, 8, 28, 0, 0, 1>>>>,
                                      <<<<29, 8, 0, 0, 0, 0>>, <<29, 8, 28, 0, 0, 1>>>>,
                                      <<<<29, 8, 0, 0, 0, 0>>, <<29, 8, 0, 0, 0, 0>>>>,
                                      <<<<33, 33>>>>, <<<<29, 8, 0, 0, 0, 1>>>>}]
    /\ fm_avail_dict = << >>
    /\ fm_boards = [p \in {"p1", "p2"} |-> None]
    /\ fm_err = "none"
    /\ fm_pc = "args"

\* Mutant: devices with any number of interfaces are taken.
create_manager_any_interfaces ==
    LET
        min_nr == fm_args.min_nr
        serial_numbers == fm_args.serial_numbers
        sn_set == {serial_numbers[k] : k \in 1..Len(serial_numbers)}
        \* max_nr, 0 replaced by the number of devices
        max_nr == IF fm_args.max_nr = 0 THEN Len(fm_devices) ELSE fm_args.max_nr
        \* the loop over the devices from device k on; r holds sn_set, add_count and
        \* the keys of _avail_dict
        RECURSIVE add_boards(_, _)
        add_boards(k, r) ==
            IF k > Len(fm_devices) THEN r
            ELSE IF ~is_valid_serial_number(fm_devices[k].sn)
            THEN add_boards(k + 1, r)
            ELSE IF fm_devices[k].sn \in r.sn_set
            THEN add_boards(k + 1, [r EXCEPT !.sn_set = @ \ {fm_devices[k].sn},
                                             !.avail = @ \cup {fm_devices[k].sn}])
            ELSE IF r.add_count = 0
            THEN (IF r.sn_set = {} THEN r ELSE add_boards(k + 1, r))
            ELSE add_boards(k + 1, [r EXCEPT !.add_count = @ - 1,
                                             !.avail = @ \cup {fm_devices[k].sn}])
        found == add_boards(1, [sn_set |-> sn_set, add_count |-> max_nr - Cardinality(sn_set),
                                avail |-> {}])
        \* the exception raised
        err ==
            IF \/ min_nr < 1
               \/ fm_args.max_nr > 0 /\ min_nr > fm_args.max_nr
               \/ fm_args.max_nr > 0 /\ Len(serial_numbers) > fm_args.max_nr
               \/ \E k \in 1..Len(serial_numbers) : check_serial_number(serial_numbers[k]) # "none"
               \/ Cardinality(sn_set) # Len(serial_numbers)
            THEN "ValueError"
            ELSE IF Len(fm_devices) < Cardinality(sn_set) THEN "OSError"
            ELSE IF found.sn_set # {} THEN "OSError"
            ELSE IF Cardinality(found.avail) < min_nr THEN "OSError"
            ELSE "none"
    IN
    /\ fm_pc = "args"
    /\ fm_err' = err
    /\ fm_avail_dict' = IF err = "none" THEN [sn \in found.avail |-> TRUE] ELSE << >>
    /\ fm_pc' = IF err = "none" THEN "managed" ELSE "failed"
    /\ UNCHANGED <<fm_devices, fm_args, fm_boards, genVars, sliceVars, configVars, bvVars, bankVars, codecVars>>

\* FPGAManager.create_manager(min_nr, max_nr, serial_numbers): FPGAManager.__init__
\* with the devices of Ftdi.find_all
create_manager ==
    LET
        min_nr == fm_args.min_nr
        serial_numbers == fm_args.serial_numbers
        sn_set == {serial_numbers[k] : k \in 1..Len(serial_numbers)}
        \* max_nr, 0 replaced by the number of devices
        max_nr == IF fm_args.max_nr = 0 THEN Len(fm_devices) ELSE fm_args.max_nr
        \* the loop over the devices from device k on; r holds sn_set, add_count and
        \* the keys of _avail_dict
        RECURSIVE add_boards(_, _)
        add_boards(k, r) ==
            IF k > Len(fm_devices) THEN r
            ELSE IF ~is_valid_serial_number(fm_devices[k].sn) \/ fm_devices[k].i_count # 2
            THEN add_boards(k + 1, r)
            ELSE IF fm_devices[k].sn \in r.sn_set
            THEN add_boards(k + 1, [r EXCEPT !.sn_set = @ \ {fm_devices[k].sn},
                                             !.avail = @ \cup {fm_devices[k].sn}])
            ELSE IF r.add_count = 0
            THEN (IF r.sn_set = {} THEN r ELSE add_boards(k + 1, r))
            ELSE add_boards(k + 1, [r EXCEPT !.add_count = @ - 1,
                                             !.avail = @ \cup {fm_devices[k].sn}])
        found == add_boards(1, [sn_set |-> sn_set, add_count |-> max_nr - Cardinality(sn_set),
                                avail |-> {}])
        \* the exception raised
        err ==
            IF \/ min_nr < 1
               \/ fm_args.max_nr > 0 /\ min_nr > fm_args.max_nr
               \/ fm_args.max_nr > 0 /\ Len(serial_numbers) > fm_args.max_nr
               \/ \E k \in 1..Len(serial_numbers) : check_serial_number(serial_numbers[k]) # "none"
               \/ Cardinality(sn_set) # Len(serial_numbers)
            THEN "ValueError"
            ELSE IF Len(fm_devices) < Cardinality(sn_set) THEN "OSError"
            ELSE IF found.sn_set # {} THEN "OSError"
            ELSE IF Cardinality(found.avail) < min_nr THEN "OSError"
            ELSE "none"
    IN
    /\ fm_pc = "args"
    /\ fm_err' = err
    /\ fm_avail_dict' = IF err = "none" THEN [sn \in found.avail |-> TRUE] ELSE << >>
    /\ fm_pc' = IF err = "none" THEN "managed" ELSE "failed"
    /\ UNCHANGED <<fm_devices, fm_args, fm_boards, genVars, sliceVars, configVars, bvVars, bankVars, codecVars>>

\* fm.acquire_board() or fm.acquire_board(serial_number) in a process that holds
\* no board
acquire_board ==
    /\ fm_pc = "managed"
    /\ \E p \in DOMAIN fm_boards :
           /\ fm_boards[p] = None
           /\ \E serial_number \in {None} \cup {Some(sn) : sn \in DOMAIN fm_avail_dict} :
                  LET sn_avail == {sn \in DOMAIN fm_avail_dict : fm_avail_dict[sn]}
                  IN  IF serial_number = None /\ sn_avail = {}
                      THEN /\ fm_err' = "IndexError"
                           /\ UNCHANGED <<fm_avail_dict, fm_boards>>
                      ELSE \E sn \in (IF serial_number = None THEN sn_avail ELSE {Val(serial_number)}) :
                               /\ fm_avail_dict' = [fm_avail_dict EXCEPT ![sn] = FALSE]
                               /\ fm_boards' = [fm_boards EXCEPT ![p] = Some(sn)]
                               /\ fm_err' = "none"
    /\ UNCHANGED <<fm_devices, fm_args, fm_pc, genVars, sliceVars, configVars, bvVars, bankVars, codecVars>>

\* fm.release_board(board) in the process that holds the board
release_board ==
    /\ fm_pc = "managed"
    /\ \E p \in DOMAIN fm_boards :
           /\ fm_boards[p] # None
           /\ IF Val(fm_boards[p]) \notin DOMAIN fm_avail_dict
              THEN /\ fm_err' = "ValueError"
                   /\ UNCHANGED <<fm_avail_dict, fm_boards>>
              ELSE /\ fm_avail_dict' = [fm_avail_dict EXCEPT ![Val(fm_boards[p])] = TRUE]
                   /\ fm_boards' = [fm_boards EXCEPT ![p] = None]
                   /\ fm_err' = "none"
    /\ UNCHANGED <<fm_devices, fm_args, fm_pc, genVars, sliceVars, configVars, bvVars, bankVars, codecVars>>

SpecManager == ManagerInit /\ [][create_manager \/ acquire_board \/ release_board]_vars

\* C18: when the FPGAManager was created without an exception, the keys of
\* _avail_dict hold every serial number requested, every key is a valid serial
\* number of a device found with two interfaces, and the number of keys is
\* min_nr at least and, for max_nr > 0, max_nr at most.  (_avail_dict is a
\* dict: a serial number is a key once.)
C18_ManagedSet ==
    fm_pc = "managed" =>
        /\ \A k \in 1..Len(fm_args.serial_numbers) : fm_args.serial_numbers[k] \in DOMAIN fm_avail_dict
        /\ \A sn \in DOMAIN fm_avail_dict :
               /\ is_valid_serial_number(sn)
               /\ \E k \in 1..Len(fm_devices) : fm_devices[k] = [sn |-> sn, i_count |-> 2]
        /\ Cardinality(DOMAIN fm_avail_dict) >= fm_args.min_nr
        /\ fm_args.max_nr > 0 => Cardinality(DOMAIN fm_avail_dict) <= fm_args.max_nr

\* T8S001 was requested, with two boards at most, from the devices T80000,
\* T8S001 with one interface and T8S001 with two
C18_Witness ==
    /\ fm_pc = "managed"
    /\ fm_args = [min_nr |-> 2, max_nr |-> 2, serial_numbers |-> <<<<29, 8, 28, 0, 0, 1>>>>]
    /\ fm_devices = <<[sn |-> <<29, 8, 0, 0, 0, 0>>, i_count |-> 2],
                      [sn |-> <<29, 8, 28, 0, 0, 1>>, i_count |-> 1],
                      [sn |-> <<29, 8, 28, 0, 0, 1>>, i_count |-> 2]>>
    /\ DOMAIN fm_avail_dict = {<<29, 8, 0, 0, 0, 0>>, <<29, 8, 28, 0, 0, 1>>}
    /\ \A sn \in DOMAIN fm_avail_dict : fm_avail_dict[sn]

\* C19: no board is held by two processes at a time: acquire_board does not
\* hand out a board that was acquired and not released.
C19_BoardExclusivity ==
    \A p, q \in DOMAIN fm_boards :
        (p # q /\ fm_boards[p] # None) => fm_boards[p] # fm_boards[q]

====
